---- MODULE Spec2Model ----
(***************************************************************************)
(* Model of scripts/reupload_failed_workitems.py: the SQLite StateTracker, *)
(* process_workitem, belongs_to_partition / load_workitems_from_csv and    *)
(* the two-level scheduler of main().                                      *)
(*                                                                         *)
(* Every StateTracker call is one atomic step (one SQL statement and its   *)
(* commit); a processor is a sequence of such steps, so that calls of      *)
(* different threads and of different processes sharing one state database *)
(* interleave between them.                                                *)
(***************************************************************************)
EXTENDS Integers, Sequences, FiniteSets, TLC

\* ------------------------------------------------------------------ bounds
MaxRuns == 2          \* program invocations per process on the state database
MaxResolved == 2      \* rows a resolver (Kusto) query returns at most
NClaimers == 3        \* concurrent callers of claim_file on one file
MaxPartitions == 3    \* cooperating partitioned instances at most
HashBound == 2        \* string hashes range over -HashBound..HashBound
\* Most files of one work item that fail in one call.
MaxFailed == 6

\* --------------------------------------------------------------- universes
Procs == {"A", "B"}                 \* OS processes sharing one state database
WorkItems == {"W1", "W2"}           \* (workitem_id, job_id) keys

\* A file name is a path: its directory part and its last component.
FileNames ==
    { [dir |-> "d1", base |-> "r1"],
      [dir |-> "d2", base |-> "r1"],
      [dir |-> "",   base |-> "r2"] }

\* os.path.basename(file_meta.filename)
Basename(f) == f.base

\* Position of a file name in ascending FileName order ("order by FileName asc").
FileRank(f) ==
    CASE f.dir = "d1" -> 1
      [] f.dir = "d2" -> 2
      [] OTHER        -> 3

\* Position of a work item in ascending workitem_id order.
WorkItemRank(w) == IF w = "W1" THEN 1 ELSE 2

\* Files the metadata store may hold for a work item.
FilesOf(w) == IF w = "W1" THEN FileNames ELSE {[dir |-> "", base |-> "r2"]}

Statuses == {"pending", "in_progress", "completed", "failed"}

\* ------------------------------------------------------------- StateTracker
\* A missing row has status "absent".
NoWorkItem == [status |-> "absent", files_total |-> 0, files_processed |-> 0,
               error |-> "none"]

EmptyWorkItems == [w \in WorkItems |-> NoWorkItem]
EmptyFiles == [w \in WorkItems |-> [f \in FileNames |-> "absent"]]

\* add_workitem as INSERT OR REPLACE: an existing row is reset
add_workitem_replacing(ws, w) ==
    [ws EXCEPT ![w] = [status |-> "pending", files_total |-> 0,
                       files_processed |-> 0, error |-> "none"]]

\* INSERT OR IGNORE INTO workitems ... 'pending'
add_workitem(ws, w) ==
    IF ws[w].status = "absent"
    THEN [ws EXCEPT ![w] = [status |-> "pending", files_total |-> 0,
                            files_processed |-> 0, error |-> "none"]]
    ELSE ws

\* update_workitem_status that never stores the error message
update_workitem_status_dropping_error(ws, w, status, error_message) ==
    IF ws[w].status = "absent" THEN ws
    ELSE [ws EXCEPT ![w].status = status]

\* UPDATE workitems SET status (and error_message, except for in_progress)
update_workitem_status(ws, w, status, error_message) ==
    IF ws[w].status = "absent" THEN ws
    ELSE IF status = "in_progress"
    THEN [ws EXCEPT ![w].status = status]
    ELSE [ws EXCEPT ![w].status = status, ![w].error = error_message]

\* UPDATE workitems SET files_total = ?
update_workitem_file_count(ws, w, n) ==
    IF ws[w].status = "absent" THEN ws
    ELSE [ws EXCEPT ![w].files_total = n]

\* add_file as INSERT OR REPLACE: an existing row is reset
add_file_replacing(fs, w, f) == [fs EXCEPT ![w][f] = "pending"]

\* INSERT OR IGNORE INTO files ... 'pending'
add_file(fs, w, f) ==
    IF fs[w][f] = "absent" THEN [fs EXCEPT ![w][f] = "pending"] ELSE fs

\* update_file_status, first commit: UPDATE files SET status = ?
set_file_status(fs, w, f, status) ==
    IF fs[w][f] = "absent" THEN fs ELSE [fs EXCEPT ![w][f] = status]

\* update_file_status, second commit: files_processed = files_processed + 1
incr_files_processed(ws, w) ==
    IF ws[w].status = "absent" THEN ws
    ELSE [ws EXCEPT ![w].files_processed = @ + 1]

\* get_workitem_status that reports every row as pending
get_workitem_status_always_pending(ws, w) == "pending"

\* SELECT status FROM workitems: None ("none") when there is no row
get_workitem_status(ws, w) ==
    IF ws[w].status = "absent" THEN "none" ELSE ws[w].status

\* SELECT status FROM files
get_file_status(fs, w, f) ==
    IF fs[w][f] = "absent" THEN "none" ELSE fs[w][f]

\* claim_file with the status condition of its WHERE clause left out
claim_rowcount_any_status(fs, w, f) ==
    IF fs[w][f] # "absent" THEN 1 ELSE 0

\* claim_file: the rows matched by
\*   UPDATE files SET status = 'in_progress' WHERE ... AND status IN ('pending', 'failed')
claim_rowcount(fs, w, f) ==
    IF fs[w][f] \in {"pending", "failed"} THEN 1 ELSE 0

\* claim_file: the table after the conditional UPDATE
claim_update(fs, w, f) ==
    IF claim_rowcount(fs, w, f) = 1 THEN [fs EXCEPT ![w][f] = "in_progress"] ELSE fs

\* claim_file returns cursor.rowcount == 1
claim_file(fs, w, f) == claim_rowcount(fs, w, f) = 1

\* A set of work items as the list ORDER BY workitem_id
RECURSIVE SortedWorkItems(_)
SortedWorkItems(S) ==
    IF S = {} THEN << >>
    ELSE LET m == CHOOSE x \in S : \A y \in S : WorkItemRank(x) <= WorkItemRank(y)
         IN <<m>> \o SortedWorkItems(S \ {m})

\* get_pending_workitems without its WHERE clause
get_pending_workitems_any_status(ws) ==
    SortedWorkItems({w \in WorkItems : ws[w].status # "absent"})

\* SELECT ... WHERE status IN ('pending', 'failed', 'in_progress') ORDER BY workitem_id
get_pending_workitems(ws) ==
    SortedWorkItems({w \in WorkItems :
                        ws[w].status \in {"pending", "failed", "in_progress"}})

\* -------------------------------------------------------- Metadata Resolver
\* Lists a query can return for a work item: rows in ascending FileName order,
\* the same row possibly more than once.
ResolvedLists(w) ==
    { s \in UNION { [1..n -> FilesOf(w)] : n \in 0..MaxResolved } :
        \A i \in 1..(Len(s) - 1) : FileRank(s[i]) <= FileRank(s[i + 1]) }

\* query_files_for_workitem: the rows, or an exception (ok = FALSE)
ResolverOutcomes(w) ==
    { [ok |-> TRUE, rows |-> s] : s \in ResolvedLists(w) }
        \cup { [ok |-> FALSE, rows |-> << >>] }

\* The de-duplication loop with the whole file name as its key
RECURSIVE DedupeFrom_by_filename(_, _, _)
DedupeFrom_by_filename(rows, i, unique_files) ==
    IF i > Len(rows) THEN unique_files
    ELSE IF \E j \in 1..Len(unique_files) : unique_files[j] = rows[i]
    THEN DedupeFrom_by_filename(rows, i + 1, unique_files)
    ELSE DedupeFrom_by_filename(rows, i + 1, Append(unique_files, rows[i]))

\* process_workitem, the de-duplication loop: the first row of each base name
RECURSIVE DedupeFrom(_, _, _)
DedupeFrom(rows, i, unique_files) ==
    IF i > Len(rows) THEN unique_files
    ELSE IF \E j \in 1..Len(unique_files) :
                Basename(unique_files[j]) = Basename(rows[i])
    THEN DedupeFrom(rows, i + 1, unique_files)
    ELSE DedupeFrom(rows, i + 1, Append(unique_files, rows[i]))

Dedupe(rows) == DedupeFrom(rows, 1, << >>)

\* Elements of a sequence
Range(s) == { s[i] : i \in 1..Len(s) }

\* ------------------------------------------------------------------- state
VARIABLES
    workitems,   \* state database, table workitems
    files,       \* state database, table files
    csv,         \* the input list each process is started with
    args,        \* --partition / --total-partitions each process is started with
    budget,      \* how many times each process is started
    env,         \* the collaborators: resolver rows and transfer outcomes
    run,         \* per process: main()'s position, flags and counters
    fut,         \* per process and work item: the outer pool's future
    task,        \* per process and work item: process_workitem's locals
    xfer,        \* per process, work item and file: the inner pool's future
    snap,        \* history: the state database when the first run ended
    claimers,    \* concurrent callers of claim_file and what each was returned
    part,        \* cooperating partitioned instances and what each seeded
    target,      \* the target blob store, and what the transfers did
    handles,     \* connections and clients, and the threads that used each
    report       \* the failed files of a call and the message built from them

vars == <<workitems, files, csv, args, budget, env, run, fut, task, xfer, snap,
         claimers, part, target, handles, report>>

\* What no step of the program writes.
inputs == <<csv, args, budget, env>>

\* What the steps of main() and process_workitem leave alone.
others == <<claimers, part, target, handles, report>>

IdleRun == [pc |-> "idle", resume |-> FALSE, n |-> 0, shutdown |-> FALSE,
            worklist |-> << >>, collected |-> {}, completed |-> 0,
            failed |-> 0, skipped |-> 0, exit |-> "none", in_partition |-> {}]

IdleTask == [pc |-> "none", raw |-> << >>, files |-> << >>, idx |-> 0,
             to_process |-> << >>, seen |-> {}, failed_files |-> << >>]

IdleFut == [w \in WorkItems |-> "none"]
IdleTasks == [w \in WorkItems |-> IdleTask]
IdleXfer == [w \in WorkItems |-> [f \in FileNames |-> "none"]]

\* Input lists: rows of work items, a row possibly repeated.
CsvLists == { <<"W1">>, <<"W1", "W2">>, <<"W2", "W1", "W1">> }

\* The runs a behaviour is made of: one process started once on several work
\* items, one process started again and again, two processes on one database.
Scenarios ==
    { [csv |-> [p \in Procs |-> IF p = "A" THEN l ELSE << >>],
       budget |-> [p \in Procs |-> IF p = "A" THEN 1 ELSE 0]] : l \in CsvLists }
    \cup
    { [csv |-> [p \in Procs |-> IF p = "A" THEN <<"W1">> ELSE << >>],
       budget |-> [p \in Procs |-> IF p = "A" THEN MaxRuns ELSE 0]] }
    \cup
    { [csv |-> [p \in Procs |-> <<"W2">>],
       budget |-> [p \in Procs |-> 1]] }

NoSnap == [taken |-> FALSE, resume |-> FALSE,
           workitems |-> EmptyWorkItems, files |-> EmptyFiles]
NoClaimers == << >>

\* An empty target container in which no transfer has done anything.
NoTarget == [blobs |-> {}, existed |-> {}, downloads |-> {}, uploads |-> {}]

\* No connection and no client has been used.
NoHandles ==
    [queue |-> FALSE, client |-> [kind |-> "none", owner |-> "none"], used |-> {},
     at |-> [t \in {"main", "o1", "o2", "i1", "i2"} |-> "idle"]]

\* No list of failed files has been turned into a message.
NoReport ==
    [failed_files |-> << >>, built |-> FALSE,
     error_msg |-> [count |-> 0, named |-> << >>,
                    more |-> [given |-> FALSE, value |-> 0]]]

\* Neither --partition nor --total-partitions is given (argparse leaves None).
NotGiven == [given |-> FALSE, value |-> 0]
NoArgs == [partition |-> NotGiven, total_partitions |-> NotGiven]
NoPart == [total |-> 0, rows |-> << >>, seeded |-> << >>, member |-> << >>]

\* Collaborators whose outcomes are not fixed: each call draws its own.
FreeEnv ==
    [pinned |-> FALSE,
     resolve |-> [w \in WorkItems |-> [ok |-> FALSE, rows |-> << >>]],
     transfer |-> [w \in WorkItems |-> [f \in FileNames |-> FALSE]]]

Init ==
    /\ workitems = EmptyWorkItems
    /\ files = EmptyFiles
    /\ \E sc \in Scenarios : csv = sc.csv /\ budget = sc.budget
    /\ args = [p \in Procs |-> NoArgs]
    /\ env = FreeEnv
    /\ snap = NoSnap
    /\ target = NoTarget
    /\ handles = NoHandles
    /\ report = NoReport
    /\ claimers = NoClaimers
    /\ part = NoPart
    /\ run = [p \in Procs |-> IdleRun]
    /\ fut = [p \in Procs |-> IdleFut]
    /\ task = [p \in Procs |-> IdleTasks]
    /\ xfer = [p \in Procs |-> IdleXfer]

\* Pool widths (--workitem-workers, --file-workers defaults)
MAX_WORKITEM_WORKERS == 20
MAX_FILE_WORKERS == 10

\* ------------------------------------------------------------------ main()
Active(p) == run[p].pc \notin {"idle", "exited"}

\* Values of hash(workitem_id) in an interpreter
HashValues == (0 - HashBound)..HashBound

\* Python's a % n for n > 0: the result is in 0..n-1, also for a < 0
PyMod(a, n) == a % n

\* belongs_to_partition with a remainder that keeps the sign of the hash
belongs_to_partition_truncating(h, workitem_id, partition, total_partitions) ==
    (IF h[workitem_id] >= 0
     THEN h[workitem_id] % total_partitions
     ELSE 0 - ((0 - h[workitem_id]) % total_partitions)) = partition

\* hash(workitem_id) % total_partitions == partition, where h is the string hash
\* of the interpreter that evaluates it
belongs_to_partition(h, workitem_id, partition, total_partitions) ==
    PyMod(h[workitem_id], total_partitions) = partition

\* --partition / --total-partitions not given
NoPartition == [on |-> FALSE, partition |-> 0, total |-> 0]

\* History: the ids for which load_workitems_from_csv, in an interpreter whose
\* string hash is h, does not take the "continue" of the partition check.
PartitionMembers(pa, h) ==
    {w \in WorkItems : pa.on => belongs_to_partition(h, w, pa.partition, pa.total)}

\* load_workitems_from_csv: add_workitem for every row of this partition
RECURSIVE load_workitems_from_csv(_, _, _, _, _)
load_workitems_from_csv(rows, i, ws, pa, h) ==
    IF i > Len(rows) THEN ws
    ELSE IF pa.on /\ ~belongs_to_partition(h, rows[i], pa.partition, pa.total)
    THEN load_workitems_from_csv(rows, i + 1, ws, pa, h)
    ELSE load_workitems_from_csv(rows, i + 1, add_workitem(ws, rows[i]), pa, h)

\* main's validation without its "--total-partitions must be at least 2" check
partition_args_valid_without_minimum(a) ==
    /\ a.partition.given = a.total_partitions.given
    /\ a.partition.given =>
          ~(a.partition.value < 0 \/ a.partition.value >= a.total_partitions.value)

\* main, "Validate partition arguments": FALSE where main returns 1
partition_args_valid(a) ==
    /\ a.partition.given = a.total_partitions.given
    /\ a.partition.given =>
          /\ ~(a.partition.value < 0 \/ a.partition.value >= a.total_partitions.value)
          /\ ~(a.total_partitions.value < 2)

\* The partition load_workitems_from_csv is called with
partition_of(a) ==
    IF a.partition.given /\ a.total_partitions.given
    THEN [on |-> TRUE, partition |-> a.partition.value,
          total |-> a.total_partitions.value]
    ELSE NoPartition

\* main's exit status with every future counted as completed
exit_status_ignoring_failed(failed) == "0"

\* main: "if failed > 0: return 1, else: return 0"
exit_status(failed) == IF failed > 0 THEN "1" ELSE "0"

\* History: with fixed collaborators, the database as the first run leaves it.
RunEnded(p) ==
    IF env.pinned /\ run[p].n = 1
    THEN [taken |-> TRUE, resume |-> run[p].resume,
          workitems |-> workitems, files |-> files]
    ELSE snap

\* The program is started (fresh, or with --resume) on the state database.
StartRun(p, resume) ==
    /\ ~Active(p)
    /\ run[p].n < budget[p]
    /\ run' = [run EXCEPT ![p] =
                  [IdleRun EXCEPT !.pc = "validate",
                                  !.resume = resume,
                                  !.n = run[p].n + 1]]
    /\ fut' = [fut EXCEPT ![p] = IdleFut]
    /\ task' = [task EXCEPT ![p] = IdleTasks]
    /\ xfer' = [xfer EXCEPT ![p] = IdleXfer]
    /\ UNCHANGED <<workitems, files, inputs, snap, others>>

\* main: the partition arguments are validated before anything is set up
ValidateArgs(p) ==
    /\ run[p].pc = "validate"
    /\ run' = [run EXCEPT ![p] =
                  IF partition_args_valid(args[p])
                  THEN [@ EXCEPT !.pc = IF run[p].resume THEN "get_pending" ELSE "load"]
                  ELSE [@ EXCEPT !.pc = "exited", !.exit = "1"]]
    /\ UNCHANGED <<workitems, files, inputs, snap, others, fut, task, xfer>>

\* main: "if not args.resume: load_workitems_from_csv(...)", in an interpreter
\* whose string hash is h
LoadCsv(p) ==
    /\ run[p].pc = "load"
    /\ \E h \in [WorkItems -> HashValues] :
         /\ workitems' = load_workitems_from_csv(csv[p], 1, workitems,
                                                 partition_of(args[p]), h)
         /\ run' = [run EXCEPT
                       ![p].pc = "get_pending",
                       ![p].in_partition = PartitionMembers(partition_of(args[p]), h)]
    /\ UNCHANGED <<files, inputs, snap, others, fut, task, xfer>>

\* main: get_pending_workitems, "return 0" when empty, else submit every item
GetPending(p) ==
    /\ run[p].pc = "get_pending"
    /\ LET pending == get_pending_workitems(workitems) IN
         IF pending = << >>
         THEN /\ run' = [run EXCEPT ![p].pc = "exited", ![p].exit = "0"]
              /\ snap' = RunEnded(p)
              /\ UNCHANGED fut
         ELSE /\ run' = [run EXCEPT ![p].pc = "collect", ![p].worklist = pending]
              /\ UNCHANGED snap
              /\ fut' = [fut EXCEPT ![p] =
                            [w \in WorkItems |->
                                IF w \in Range(pending) THEN "queued" ELSE "none"]]
    /\ UNCHANGED <<workitems, files, inputs, others, task, xfer>>

\* An outer pool thread takes a queued work item.
TaskStart(p, w) ==
    /\ Active(p)
    /\ fut[p][w] = "queued"
    /\ Cardinality({v \in WorkItems : fut[p][v] = "running"}) < MAX_WORKITEM_WORKERS
    /\ fut' = [fut EXCEPT ![p][w] = "running"]
    /\ task' = [task EXCEPT ![p][w] = [IdleTask EXCEPT !.pc = "start"]]
    /\ UNCHANGED <<workitems, files, inputs, snap, others, run, xfer>>

\* The loop of main with its check of shutdown_event left out
loop_breaks_never(shutdown) == FALSE

\* main, first in every iteration: "if shutdown_event.is_set(): ... break"
loop_breaks(shutdown) == shutdown

\* main: one iteration of "for future in as_completed(future_to_workitem)"
Collect(p, w) ==
    /\ run[p].pc = "collect"
    /\ w \in Range(run[p].worklist) \ run[p].collected
    /\ fut[p][w] \in {"done_true", "done_false", "done_raised", "cancelled"}
    /\ IF loop_breaks(run[p].shutdown)
       THEN \* cancel every future that is not done, break
            /\ fut' = [fut EXCEPT ![p] =
                          [v \in WorkItems |->
                              IF fut[p][v] = "queued" THEN "cancelled" ELSE fut[p][v]]]
            /\ run' = [run EXCEPT ![p].pc = "pool_shutdown"]
       ELSE /\ UNCHANGED fut
            /\ LET r == run[p]
                   c == r.collected \cup {w}
               IN run' = [run EXCEPT ![p] =
                     [r EXCEPT
                        !.collected = c,
                        !.completed = IF fut[p][w] = "done_true" THEN @ + 1 ELSE @,
                        !.failed = IF fut[p][w] \in {"done_false", "done_raised"}
                                  THEN @ + 1 ELSE @,
                        !.skipped = IF fut[p][w] = "cancelled" THEN @ + 1 ELSE @,
                        !.pc = IF c = Range(r.worklist)
                               THEN "pool_shutdown" ELSE "collect"]]
    /\ UNCHANGED <<workitems, files, inputs, snap, others, task, xfer>>

\* main, finally: executor.shutdown(wait=True, cancel_futures=True), the cancelling
PoolCancel(p) ==
    /\ run[p].pc = "pool_shutdown"
    /\ fut' = [fut EXCEPT ![p] =
                  [v \in WorkItems |->
                      IF fut[p][v] = "queued" THEN "cancelled" ELSE fut[p][v]]]
    /\ run' = [run EXCEPT ![p].pc = "pool_join"]
    /\ UNCHANGED <<workitems, files, inputs, snap, others, task, xfer>>

\* executor.shutdown with wait=False: main goes on while processors run
pool_joined_without_wait(p) == TRUE

\* executor.shutdown(wait=True, ...) returns: no processor of the pool runs
pool_joined(p) == \A v \in WorkItems : fut[p][v] # "running"

\* main, finally: the wait for the running processors, then the exit status
PoolJoin(p) ==
    /\ run[p].pc = "pool_join"
    /\ pool_joined(p)
    /\ run' = [run EXCEPT ![p].pc = "exited",
                          ![p].exit = exit_status(run[p].failed)]
    /\ snap' = RunEnded(p)
    /\ UNCHANGED <<workitems, files, inputs, others, fut, task, xfer>>

\* signal_handler, first SIGINT: shutdown_event.set()
Cancel(p) ==
    /\ Active(p)
    /\ ~run[p].shutdown
    /\ run' = [run EXCEPT ![p].shutdown = TRUE]
    /\ UNCHANGED <<workitems, files, inputs, snap, others, fut, task, xfer>>

\* The process is killed: its threads stop where they are, the database stays.
Crash(p) ==
    /\ Active(p)
    /\ run' = [run EXCEPT ![p].pc = "exited", ![p].exit = "killed"]
    /\ fut' = [fut EXCEPT ![p] = IdleFut]
    /\ task' = [task EXCEPT ![p] = IdleTasks]
    /\ xfer' = [xfer EXCEPT ![p] = IdleXfer]
    /\ UNCHANGED <<workitems, files, inputs, snap, others>>

\* -------------------------------------------------------- process_workitem
\* process_workitem returns ret: the outer future is done.
Return(p, w, ret) ==
    /\ fut' = [fut EXCEPT ![p][w] = IF ret THEN "done_true" ELSE "done_false"]
    /\ task' = [task EXCEPT ![p][w] = [IdleTask EXCEPT !.pc = "returned"]]
    /\ xfer' = [xfer EXCEPT ![p][w] = [f \in FileNames |-> "none"]]

\* "return False" at one of the three checks of shutdown_event
Stop(p, w) ==
    /\ fut' = [fut EXCEPT ![p][w] = "done_false"]
    /\ task' = [task EXCEPT ![p][w] = [IdleTask EXCEPT !.pc = "stopped"]]
    /\ xfer' = [xfer EXCEPT ![p][w] = [f \in FileNames |-> "none"]]

\* "if shutdown_event.is_set(): return False"
P_Start(p, w) ==
    /\ task[p][w].pc = "start"
    /\ IF run[p].shutdown
       THEN Stop(p, w)
       ELSE /\ task' = [task EXCEPT ![p][w].pc = "get_status"]
            /\ UNCHANGED <<fut, xfer>>
    /\ UNCHANGED <<workitems, files, inputs, snap, others, run>>

\* get_workitem_status; "if status == 'completed': return True"
P_GetStatus(p, w) ==
    /\ task[p][w].pc = "get_status"
    /\ IF get_workitem_status(workitems, w) = "completed"
       THEN Return(p, w, TRUE)
       ELSE /\ task' = [task EXCEPT ![p][w].pc = "set_in_progress"]
            /\ UNCHANGED <<fut, xfer>>
    /\ UNCHANGED <<workitems, files, inputs, snap, others, run>>

\* update_workitem_status(workitem_id, job_id, 'in_progress')
P_SetInProgress(p, w) ==
    /\ task[p][w].pc = "set_in_progress"
    /\ workitems' = update_workitem_status(workitems, w, "in_progress", "none")
    /\ task' = [task EXCEPT ![p][w].pc = "query"]
    /\ UNCHANGED <<files, inputs, snap, others, run, fut, xfer>>

\* kusto_helper.query_files_for_workitem and the de-duplication of its rows
P_Query(p, w) ==
    /\ task[p][w].pc = "query"
    /\ \E out \in ResolverOutcomes(w) :
         /\ env.pinned => out = env.resolve[w]
         /\ task' = [task EXCEPT ![p][w].pc = IF out.ok THEN "resolved" ELSE "query_failed",
                              ![p][w].raw = out.rows,
                              ![p][w].files = Dedupe(out.rows)]
    /\ UNCHANGED <<workitems, files, inputs, snap, others, run, fut, xfer>>

\* "except Exception: update_workitem_status(..., 'failed', error_msg); return False"
P_QueryFailed(p, w) ==
    /\ task[p][w].pc = "query_failed"
    /\ workitems' = update_workitem_status(workitems, w, "failed", "query")
    /\ Return(p, w, FALSE)
    /\ UNCHANGED <<files, inputs, snap, others, run>>

\* "if not files" / the shutdown check before the uploads / update_workitem_file_count
P_Resolved(p, w) ==
    /\ task[p][w].pc = "resolved"
    /\ IF task[p][w].raw = << >>
       THEN /\ workitems' = update_workitem_status(workitems, w, "completed", "none")
            /\ Return(p, w, TRUE)
       ELSE IF run[p].shutdown
       THEN /\ workitems' = update_workitem_status(workitems, w, "pending", "none")
            /\ Stop(p, w)
       ELSE /\ workitems' = update_workitem_file_count(workitems, w,
                                                       Len(task[p][w].files))
            /\ task' = [task EXCEPT ![p][w].pc = "add_file", ![p][w].idx = 1,
                                    ![p][w].raw = << >>]
            /\ UNCHANGED <<fut, xfer>>
    /\ UNCHANGED <<files, inputs, snap, others, run>>

\* A claim loop that takes the same file again
NextFile_repeating(t) == [t EXCEPT !.pc = "add_file"]

\* The claim loop moves to the next unique file, or leaves the loop.
NextFile(t) ==
    [t EXCEPT !.idx = t.idx + 1,
              !.pc = IF t.idx + 1 > Len(t.files) THEN "claims_done" ELSE "add_file"]

\* state_tracker.add_file(...)
P_AddFile(p, w) ==
    /\ task[p][w].pc = "add_file"
    /\ files' = add_file(files, w, task[p][w].files[task[p][w].idx])
    /\ task' = [task EXCEPT ![p][w].pc = "get_file_status"]
    /\ UNCHANGED <<workitems, inputs, snap, others, run, fut, xfer>>

\* get_file_status; "if status == 'completed': continue"
P_GetFileStatus(p, w) ==
    /\ task[p][w].pc = "get_file_status"
    /\ LET t == task[p][w] IN
         task' = [task EXCEPT ![p][w] =
                     IF get_file_status(files, w, t.files[t.idx]) = "completed"
                     THEN NextFile(t)
                     ELSE [t EXCEPT !.pc = "claim_file"]]
    /\ UNCHANGED <<workitems, files, inputs, snap, others, run, fut, xfer>>

\* "if state_tracker.claim_file(...): files_to_process.append(file_meta)"
P_ClaimFile(p, w) ==
    /\ task[p][w].pc = "claim_file"
    /\ LET t == task[p][w]
           f == t.files[t.idx]
       IN /\ files' = claim_update(files, w, f)
          /\ task' = [task EXCEPT ![p][w] =
                         NextFile(IF claim_file(files, w, f)
                                  THEN [t EXCEPT !.to_process = Append(@, f)]
                                  ELSE t)]
    /\ UNCHANGED <<workitems, inputs, snap, others, run, fut, xfer>>

\* "if not files_to_process: ... 'completed'; return True", else submit the transfers
P_ClaimsDone(p, w) ==
    /\ task[p][w].pc = "claims_done"
    /\ IF task[p][w].to_process = << >>
       THEN /\ workitems' = update_workitem_status(workitems, w, "completed", "none")
            /\ Return(p, w, TRUE)
       ELSE /\ xfer' = [xfer EXCEPT ![p][w] =
                           [f \in FileNames |->
                               IF f \in Range(task[p][w].to_process)
                               THEN "queued" ELSE "none"]]
            /\ task' = [task EXCEPT ![p][w].pc = "drain"]
            /\ UNCHANGED <<workitems, fut>>
    /\ UNCHANGED <<files, inputs, snap, others, run>>

\* An inner pool thread takes a queued transfer.
XferStart(p, w, f) ==
    /\ xfer[p][w][f] = "queued"
    /\ Cardinality({g \in FileNames : xfer[p][w][g] = "running"}) < MAX_FILE_WORKERS
    /\ xfer' = [xfer EXCEPT ![p][w][f] = "running"]
    /\ UNCHANGED <<workitems, files, inputs, snap, others, run, fut, task>>

\* reuploader.reupload_file returns (True, None) or (False, error_msg)
XferFinish(p, w, f) ==
    /\ xfer[p][w][f] = "running"
    /\ \E success \in BOOLEAN :
         /\ env.pinned => success = env.transfer[w][f]
         /\ xfer' = [xfer EXCEPT ![p][w][f] = IF success THEN "ok" ELSE "fail"]
    /\ UNCHANGED <<workitems, files, inputs, snap, others, run, fut, task>>

\* The drain loop left at the first failed file
AfterFile_stopping_at_failure(t) ==
    IF t.seen = Range(t.to_process) \/ t.failed_files # << >> THEN "finalize" ELSE "drain"

\* After a file's outcome is recorded: back to the loop, or past it.
AfterFile(t) == IF t.seen = Range(t.to_process) THEN "finalize" ELSE "drain"

\* One iteration of "for future in as_completed(future_to_file)": the shutdown
\* check, else update_file_status (its UPDATE of the files row)
P_Drain(p, w, f) ==
    /\ task[p][w].pc = "drain"
    /\ f \in Range(task[p][w].to_process) \ task[p][w].seen
    /\ xfer[p][w][f] \in {"ok", "fail"}
    /\ LET t == task[p][w] IN
       IF run[p].shutdown
       THEN /\ xfer' = [xfer EXCEPT ![p][w] =
                           [g \in FileNames |->
                               IF xfer[p][w][g] = "queued" THEN "cancelled"
                               ELSE xfer[p][w][g]]]
            /\ workitems' = update_workitem_status(workitems, w, "pending", "shutdown")
            /\ task' = [task EXCEPT ![p][w].pc = "exit_pool"]
            /\ UNCHANGED files
       ELSE IF xfer[p][w][f] = "ok"
       THEN /\ files' = set_file_status(files, w, f, "completed")
            /\ task' = [task EXCEPT ![p][w].seen = @ \cup {f},
                                    ![p][w].pc = "incr"]
            /\ UNCHANGED <<workitems, xfer>>
       ELSE /\ files' = set_file_status(files, w, f, "failed")
            /\ LET u == [t EXCEPT !.seen = @ \cup {f},
                                  !.failed_files = Append(@, f)]
               IN task' = [task EXCEPT ![p][w] = [u EXCEPT !.pc = AfterFile(u)]]
            /\ UNCHANGED <<workitems, xfer>>
    /\ UNCHANGED <<inputs, snap, others, run, fut>>

\* update_file_status(..., 'completed'), its second commit: files_processed + 1
P_Incr(p, w) ==
    /\ task[p][w].pc = "incr"
    /\ workitems' = incr_files_processed(workitems, w)
    /\ task' = [task EXCEPT ![p][w].pc = AfterFile(task[p][w])]
    /\ UNCHANGED <<files, inputs, snap, others, run, fut, xfer>>

\* "if failed_files: ... 'failed' ... return False; else: ... 'completed' ... return True"
P_Finalize(p, w) ==
    /\ task[p][w].pc = "finalize"
    /\ IF task[p][w].failed_files # << >>
       THEN /\ workitems' = update_workitem_status(workitems, w, "failed", "files")
            /\ Return(p, w, FALSE)
       ELSE /\ workitems' = update_workitem_status(workitems, w, "completed", "none")
            /\ Return(p, w, TRUE)
    /\ UNCHANGED <<files, inputs, snap, others, run>>

\* "return False" inside the with block: the inner pool's __exit__ waits for the
\* transfers that run
P_ExitPool(p, w) ==
    /\ task[p][w].pc = "exit_pool"
    /\ \A g \in FileNames : xfer[p][w][g] # "running"
    /\ Stop(p, w)
    /\ UNCHANGED <<workitems, files, inputs, snap, others, run>>

\* Positions of process_workitem, inside its try block, at which a call of the
\* StateTracker (or the handling of a resolver row) can raise.
RaisingPoints ==
    {"get_status", "set_in_progress", "resolved", "add_file", "get_file_status",
     "claim_file", "claims_done", "drain", "incr", "finalize"}

\* "except Exception as e": the inner pool, if open, has finished its transfers;
\* the handler writes 'failed' and returns False, or its own write raises and the
\* exception leaves process_workitem.
P_Unexpected(p, w, handled) ==
    /\ task[p][w].pc \in RaisingPoints
    /\ \A g \in FileNames : xfer[p][w][g] \notin {"queued", "running"}
    /\ IF handled
       THEN /\ workitems' = update_workitem_status(workitems, w, "failed", "unexpected")
            /\ Return(p, w, FALSE)
       ELSE /\ fut' = [fut EXCEPT ![p][w] = "done_raised"]
            /\ task' = [task EXCEPT ![p][w] = [IdleTask EXCEPT !.pc = "returned"]]
            /\ xfer' = [xfer EXCEPT ![p][w] = [f \in FileNames |-> "none"]]
            /\ UNCHANGED workitems
    /\ UNCHANGED <<files, inputs, snap, others, run>>

\* A StateTracker call of main raises (sqlite3.OperationalError): while seeding,
\* after any number of rows were inserted, or while reading the worklist. main
\* has no except clause around them: "finally: state_tracker.close()" runs and
\* the exception leaves main.
M_StorageError(p) ==
    /\ run[p].pc \in {"load", "get_pending"}
    /\ IF run[p].pc = "load"
       THEN \E k \in 0..(Len(csv[p]) - 1), h \in [WorkItems -> HashValues] :
               workitems' = load_workitems_from_csv(SubSeq(csv[p], 1, k), 1, workitems,
                                                    partition_of(args[p]), h)
       ELSE UNCHANGED workitems
    /\ run' = [run EXCEPT ![p].pc = "exited", ![p].exit = "error"]
    /\ UNCHANGED <<files, inputs, snap, others, fut, task, xfer>>

\* ------------------------------------------------------------ specification
Next ==
    \/ \E p \in Procs, resume \in BOOLEAN : StartRun(p, resume)
    \/ \E p \in Procs : ValidateArgs(p)
    \/ \E p \in Procs : LoadCsv(p)
    \/ \E p \in Procs : GetPending(p)
    \/ \E p \in Procs, w \in WorkItems : TaskStart(p, w)
    \/ \E p \in Procs, w \in WorkItems : Collect(p, w)
    \/ \E p \in Procs : PoolCancel(p)
    \/ \E p \in Procs : PoolJoin(p)
    \/ \E p \in Procs : Cancel(p)
    \/ \E p \in Procs : Crash(p)
    \/ \E p \in Procs, w \in WorkItems : P_Start(p, w)
    \/ \E p \in Procs, w \in WorkItems : P_GetStatus(p, w)
    \/ \E p \in Procs, w \in WorkItems : P_SetInProgress(p, w)
    \/ \E p \in Procs, w \in WorkItems : P_Query(p, w)
    \/ \E p \in Procs, w \in WorkItems : P_QueryFailed(p, w)
    \/ \E p \in Procs, w \in WorkItems : P_Resolved(p, w)
    \/ \E p \in Procs, w \in WorkItems : P_AddFile(p, w)
    \/ \E p \in Procs, w \in WorkItems : P_GetFileStatus(p, w)
    \/ \E p \in Procs, w \in WorkItems : P_ClaimFile(p, w)
    \/ \E p \in Procs, w \in WorkItems : P_ClaimsDone(p, w)
    \/ \E p \in Procs, w \in WorkItems, f \in FileNames : XferStart(p, w, f)
    \/ \E p \in Procs, w \in WorkItems, f \in FileNames : XferFinish(p, w, f)
    \/ \E p \in Procs, w \in WorkItems, f \in FileNames : P_Drain(p, w, f)
    \/ \E p \in Procs, w \in WorkItems : P_Incr(p, w)
    \/ \E p \in Procs, w \in WorkItems : P_Finalize(p, w)
    \/ \E p \in Procs, w \in WorkItems : P_ExitPool(p, w)

Spec == Init /\ [][Next]_vars

\* ------------------------------------------------------ graceful shutdown
\* One process on the database, started once on any input list or MaxRuns times
\* on one work item.
InitGraceful ==
    /\ workitems = EmptyWorkItems
    /\ files = EmptyFiles
    /\ \E sc \in {x \in Scenarios : x.budget["B"] = 0} :
          csv = sc.csv /\ budget = sc.budget
    /\ args = [p \in Procs |-> NoArgs]
    /\ env = FreeEnv
    /\ run = [p \in Procs |-> IdleRun]
    /\ fut = [p \in Procs |-> IdleFut]
    /\ task = [p \in Procs |-> IdleTasks]
    /\ xfer = [p \in Procs |-> IdleXfer]
    /\ snap = NoSnap
    /\ claimers = NoClaimers
    /\ part = NoPart
    /\ target = NoTarget
    /\ handles = NoHandles
    /\ report = NoReport

\* The steps of main, of the pools' threads and of the transfers: every one of
\* them is taken by a thread that goes on running.
ThreadSteps ==
    \/ \E p \in Procs : ValidateArgs(p)
    \/ \E p \in Procs : LoadCsv(p)
    \/ \E p \in Procs : GetPending(p)
    \/ \E p \in Procs, w \in WorkItems : TaskStart(p, w)
    \/ \E p \in Procs, w \in WorkItems : Collect(p, w)
    \/ \E p \in Procs : PoolCancel(p)
    \/ \E p \in Procs : PoolJoin(p)
    \/ \E p \in Procs, w \in WorkItems : P_Start(p, w)
    \/ \E p \in Procs, w \in WorkItems : P_GetStatus(p, w)
    \/ \E p \in Procs, w \in WorkItems : P_SetInProgress(p, w)
    \/ \E p \in Procs, w \in WorkItems : P_Query(p, w)
    \/ \E p \in Procs, w \in WorkItems : P_QueryFailed(p, w)
    \/ \E p \in Procs, w \in WorkItems : P_Resolved(p, w)
    \/ \E p \in Procs, w \in WorkItems : P_AddFile(p, w)
    \/ \E p \in Procs, w \in WorkItems : P_GetFileStatus(p, w)
    \/ \E p \in Procs, w \in WorkItems : P_ClaimFile(p, w)
    \/ \E p \in Procs, w \in WorkItems : P_ClaimsDone(p, w)
    \/ \E p \in Procs, w \in WorkItems, f \in FileNames : XferStart(p, w, f)
    \/ \E p \in Procs, w \in WorkItems, f \in FileNames : XferFinish(p, w, f)
    \/ \E p \in Procs, w \in WorkItems, f \in FileNames : P_Drain(p, w, f)
    \/ \E p \in Procs, w \in WorkItems : P_Incr(p, w)
    \/ \E p \in Procs, w \in WorkItems : P_Finalize(p, w)
    \/ \E p \in Procs, w \in WorkItems : P_ExitPool(p, w)

\* Runs that may get one signal, are never killed and meet no storage error.
NextGraceful ==
    \/ \E p \in Procs, resume \in BOOLEAN : StartRun(p, resume)
    \/ \E p \in Procs : Cancel(p)
    \/ ThreadSteps

\* Threads are scheduled, and a resolver call or a transfer that has begun ends.
SpecGraceful == InitGraceful /\ [][NextGraceful]_vars /\ WF_vars(ThreadSteps)

\* ------------------------------------------------------- a second signal
\* signal_handler, second SIGINT: sys.exit(1) raises SystemExit in the main
\* thread; main's "finally" runs executor.shutdown(wait=True,
\* cancel_futures=True): queued futures are cancelled, running processors go on
ForceQuit(p) ==
    /\ Active(p)
    /\ run[p].shutdown
    /\ run[p].pc # "force_quit"
    /\ run' = [run EXCEPT ![p].pc = "force_quit"]
    /\ fut' = [fut EXCEPT ![p] =
                  [v \in WorkItems |->
                      IF fut[p][v] = "queued" THEN "cancelled" ELSE fut[p][v]]]
    /\ UNCHANGED <<workitems, files, inputs, snap, others, task, xfer>>

\* The pool's threads are joined (by the "finally", or by the interpreter on its
\* way out), then the process ends with status 1.
ForceExit(p) ==
    /\ run[p].pc = "force_quit"
    /\ \A v \in WorkItems : fut[p][v] # "running"
    /\ run' = [run EXCEPT ![p].pc = "exited", ![p].exit = "1"]
    /\ UNCHANGED <<workitems, files, inputs, snap, others, fut, task, xfer>>

NextSignal ==
    \/ Next
    \/ \E p \in Procs : ForceQuit(p)
    \/ \E p \in Procs : ForceExit(p)

SpecSignal == Init /\ [][NextSignal]_vars

\* ------------------------------------------- runs with fixed collaborators
\* The resolver returns the same rows for a work item, and a file's transfer
\* has the same outcome, whenever they are called.
PinnedEnvs ==
    { e \in [pinned : {TRUE},
             resolve : [WorkItems -> UNION { ResolverOutcomes(w) : w \in WorkItems }],
             transfer : [WorkItems -> [FileNames -> BOOLEAN]]] :
        \A w \in WorkItems :
           /\ e.resolve[w] \in ResolverOutcomes(w)
           /\ \A f \in FileNames \ Range(e.resolve[w].rows) : ~e.transfer[w][f] }

InitPinned ==
    /\ workitems = EmptyWorkItems
    /\ files = EmptyFiles
    /\ \E l \in CsvLists :
         /\ csv = [p \in Procs |-> IF p = "A" THEN l ELSE << >>]
         /\ budget = [p \in Procs |-> IF p = "A" THEN MaxRuns ELSE 0]
    /\ args = [p \in Procs |-> NoArgs]
    /\ env \in PinnedEnvs
    /\ run = [p \in Procs |-> IdleRun]
    /\ fut = [p \in Procs |-> IdleFut]
    /\ task = [p \in Procs |-> IdleTasks]
    /\ xfer = [p \in Procs |-> IdleXfer]
    /\ snap = NoSnap
    /\ target = NoTarget
    /\ handles = NoHandles
    /\ report = NoReport
    /\ claimers = NoClaimers
    /\ part = NoPart

\* The steps of main and of its processors, without signal or kill and without
\* the outcome of a transfer.
RunSteps ==
    \/ \E p \in Procs, resume \in BOOLEAN : StartRun(p, resume)
    \/ \E p \in Procs : ValidateArgs(p)
    \/ \E p \in Procs : LoadCsv(p)
    \/ \E p \in Procs : GetPending(p)
    \/ \E p \in Procs, w \in WorkItems : TaskStart(p, w)
    \/ \E p \in Procs, w \in WorkItems : Collect(p, w)
    \/ \E p \in Procs : PoolCancel(p)
    \/ \E p \in Procs : PoolJoin(p)
    \/ \E p \in Procs, w \in WorkItems : P_Start(p, w)
    \/ \E p \in Procs, w \in WorkItems : P_GetStatus(p, w)
    \/ \E p \in Procs, w \in WorkItems : P_SetInProgress(p, w)
    \/ \E p \in Procs, w \in WorkItems : P_Query(p, w)
    \/ \E p \in Procs, w \in WorkItems : P_QueryFailed(p, w)
    \/ \E p \in Procs, w \in WorkItems : P_Resolved(p, w)
    \/ \E p \in Procs, w \in WorkItems : P_AddFile(p, w)
    \/ \E p \in Procs, w \in WorkItems : P_GetFileStatus(p, w)
    \/ \E p \in Procs, w \in WorkItems : P_ClaimFile(p, w)
    \/ \E p \in Procs, w \in WorkItems : P_ClaimsDone(p, w)
    \/ \E p \in Procs, w \in WorkItems, f \in FileNames : XferStart(p, w, f)
    \/ \E p \in Procs, w \in WorkItems, f \in FileNames : P_Drain(p, w, f)
    \/ \E p \in Procs, w \in WorkItems : P_Incr(p, w)
    \/ \E p \in Procs, w \in WorkItems : P_Finalize(p, w)

\* Runs that no signal and no kill interrupts.
NextPinned ==
    \/ RunSteps
    \/ \E p \in Procs, w \in WorkItems, f \in FileNames : XferFinish(p, w, f)

SpecPinned == InitPinned /\ [][NextPinned]_vars

\* ------------------------------------------- runs in which storage calls fail
\* One process is started once on an empty database; no signal, no kill.
InitFaults ==
    /\ workitems = EmptyWorkItems
    /\ files = EmptyFiles
    /\ \E l \in CsvLists : csv = [p \in Procs |-> IF p = "A" THEN l ELSE << >>]
    /\ budget = [p \in Procs |-> IF p = "A" THEN 1 ELSE 0]
    /\ args = [p \in Procs |-> NoArgs]
    /\ env = FreeEnv
    /\ run = [p \in Procs |-> IdleRun]
    /\ fut = [p \in Procs |-> IdleFut]
    /\ task = [p \in Procs |-> IdleTasks]
    /\ xfer = [p \in Procs |-> IdleXfer]
    /\ snap = NoSnap
    /\ target = NoTarget
    /\ handles = NoHandles
    /\ report = NoReport
    /\ claimers = NoClaimers
    /\ part = NoPart

NextFaults ==
    \/ NextPinned
    \/ \E p \in Procs, w \in WorkItems, handled \in BOOLEAN : P_Unexpected(p, w, handled)
    \/ \E p \in Procs : M_StorageError(p)

SpecFaults == InitFaults /\ [][NextFaults]_vars

\* The same runs, in which threads are scheduled and a resolver call or a
\* transfer that has begun ends.
SpecFaultsFair == InitFaults /\ [][NextFaults]_vars /\ WF_vars(ThreadSteps)

\* ------------------------------------------- transfers into the target store
\* blob_name = f"{file_meta.workitem_name}-{os.path.basename(file_meta.filename)}"
blob_name(w, f) == [workitem_name |-> w, base |-> Basename(f)]

\* check_blob_exists: blob_client.exists(), and False when that call raises
check_blob_exists(blobs, name, raised) == IF raised THEN FALSE ELSE name \in blobs

\* reupload_file up to "if self.check_blob_exists(blob_name): return (True, None)"
R_Check(p, w, f, raised) ==
    /\ xfer[p][w][f] = "running"
    /\ LET name == blob_name(w, f) IN
         /\ xfer' = [xfer EXCEPT ![p][w][f] =
                        IF check_blob_exists(target.blobs, name, raised)
                        THEN "ok" ELSE "downloading"]
         /\ target' = [target EXCEPT !.existed =
                          IF name \in target.blobs THEN @ \cup {<<w, f>>} ELSE @]
    /\ UNCHANGED <<workitems, files, inputs, snap, claimers, part, handles, report, run, fut, task>>

\* _download_file returns the bytes, or raises and reupload_file returns
\* (False, error_msg)
R_Download(p, w, f, success) ==
    /\ xfer[p][w][f] = "downloading"
    /\ xfer' = [xfer EXCEPT ![p][w][f] = IF success THEN "uploading" ELSE "fail"]
    /\ target' = [target EXCEPT !.downloads = @ \cup {<<w, f>>}]
    /\ UNCHANGED <<workitems, files, inputs, snap, claimers, part, handles, report, run, fut, task>>

\* _upload_file: upload_blob(overwrite=False); ResourceExistsError is success,
\* any other failure makes reupload_file return (False, "Upload failed")
R_Upload(p, w, f, success) ==
    /\ xfer[p][w][f] = "uploading"
    /\ LET name == blob_name(w, f) IN
         IF name \in target.blobs
         THEN /\ xfer' = [xfer EXCEPT ![p][w][f] = "ok"]
              /\ target' = [target EXCEPT !.uploads = @ \cup {<<w, f>>}]
         ELSE /\ xfer' = [xfer EXCEPT ![p][w][f] = IF success THEN "ok" ELSE "fail"]
              /\ target' = [target EXCEPT
                               !.uploads = @ \cup {<<w, f>>},
                               !.blobs = IF success THEN @ \cup {name} ELSE @]
    /\ UNCHANGED <<workitems, files, inputs, snap, claimers, part, handles, report, run, fut, task>>

\* Another run of the tool, on another machine, uploads a blob.
T_OtherRunUploads(name) ==
    /\ name \notin target.blobs
    /\ \E p \in Procs : Active(p)
    /\ target' = [target EXCEPT !.blobs = @ \cup {name}]
    /\ UNCHANGED <<workitems, files, inputs, snap, claimers, part, handles, report, run, fut,
                   task, xfer>>

\* Destinations of the files of W1.
BlobNames == {blob_name("W1", f) : f \in FilesOf("W1")}

\* One process is started once on W1; the target container holds any blobs.
InitTransfer ==
    /\ workitems = EmptyWorkItems
    /\ files = EmptyFiles
    /\ csv = [p \in Procs |-> IF p = "A" THEN <<"W1">> ELSE << >>]
    /\ budget = [p \in Procs |-> IF p = "A" THEN 1 ELSE 0]
    /\ args = [p \in Procs |-> NoArgs]
    /\ env = FreeEnv
    /\ run = [p \in Procs |-> IdleRun]
    /\ fut = [p \in Procs |-> IdleFut]
    /\ task = [p \in Procs |-> IdleTasks]
    /\ xfer = [p \in Procs |-> IdleXfer]
    /\ snap = NoSnap
    /\ claimers = NoClaimers
    /\ part = NoPart
    /\ handles = NoHandles
    /\ report = NoReport
    /\ \E b \in SUBSET BlobNames : target = [NoTarget EXCEPT !.blobs = b]

NextTransfer ==
    \/ RunSteps
    \/ \E p \in Procs, w \in WorkItems, f \in FileNames, raised \in BOOLEAN :
          R_Check(p, w, f, raised)
    \/ \E p \in Procs, w \in WorkItems, f \in FileNames, success \in BOOLEAN :
          R_Download(p, w, f, success)
    \/ \E p \in Procs, w \in WorkItems, f \in FileNames, success \in BOOLEAN :
          R_Upload(p, w, f, success)
    \/ \E name \in BlobNames : T_OtherRunUploads(name)

SpecTransfer == InitTransfer /\ [][NextTransfer]_vars

\* ----------------------------------------------- connections and clients
\* The main thread, two workers of the outer pool, two workers of an inner pool.
OuterThreads == {"o1", "o2"}
InnerThreads == {"i1", "i2"}
Threads == {"main"} \cup OuterThreads \cup InnerThreads

\* self._thread_local.conn: one sqlite3 connection per calling thread
Connection(t) == [kind |-> "conn", owner |-> t]
\* KustoClient(kcsb), kept in self.client by the thread that created it
KustoClientOf(t) == [kind |-> "kusto", owner |-> t]
\* self._container_client and self._queue_client, created once in __init__
ContainerClient == [kind |-> "container", owner |-> "main"]
QueueClient == [kind |-> "queue", owner |-> "main"]
\* BlobClient.from_blob_url(source_uri, ...): a new client in every download
SourceClient(t) == [kind |-> "source", owner |-> t]

Use(h, t) == [handle |-> h, thread |-> t]

\* A StateTracker method called on the main thread (load, worklist, summary) or
\* on a worker of the outer pool (process_workitem): _get_connection
H_GetConnection(t) ==
    /\ t \in {"main"} \cup OuterThreads
    /\ Use(Connection(t), t) \notin handles.used
    /\ handles' = [handles EXCEPT !.used = @ \cup {Use(Connection(t), t)}]
    /\ UNCHANGED <<workitems, files, inputs, snap, claimers, part, target, report, run,
                   fut,
                   task, xfer>>

\* _get_client: "if self.client is None"
H_GetClient(t) ==
    /\ t \in OuterThreads
    /\ handles.at[t] = "idle"
    /\ handles' = [handles EXCEPT !.at[t] =
                      IF handles.client.kind = "none" THEN "creating" ELSE "returning"]
    /\ UNCHANGED <<workitems, files, inputs, snap, claimers, part, target, report, run,
                   fut,
                   task, xfer>>

\* _get_client: "self.client = KustoClient(kcsb)"
H_CreateClient(t) ==
    /\ t \in OuterThreads
    /\ handles.at[t] = "creating"
    /\ handles' = [handles EXCEPT !.client = KustoClientOf(t), !.at[t] = "returning"]
    /\ UNCHANGED <<workitems, files, inputs, snap, claimers, part, target, report, run,
                   fut,
                   task, xfer>>

\* _get_client: "return self.client", and client.execute in
\* query_files_for_workitem
H_Execute(t) ==
    /\ t \in OuterThreads
    /\ handles.at[t] = "returning"
    /\ handles' = [handles EXCEPT !.used = @ \cup {Use(handles.client, t)},
                                  !.at[t] = "queried"]
    /\ UNCHANGED <<workitems, files, inputs, snap, claimers, part, target, report, run,
                   fut,
                   task, xfer>>

\* check_blob_exists: self._container_client.get_blob_client(blob_name).exists()
H_CheckExists(t) ==
    /\ t \in InnerThreads
    /\ handles.at[t] = "idle"
    /\ handles' = [handles EXCEPT !.used = @ \cup {Use(ContainerClient, t)},
                                  !.at[t] = "checked"]
    /\ UNCHANGED <<workitems, files, inputs, snap, claimers, part, target, report, run,
                   fut,
                   task, xfer>>

\* _download_file
H_Download(t) ==
    /\ t \in InnerThreads
    /\ handles.at[t] = "checked"
    /\ handles' = [handles EXCEPT !.used = @ \cup {Use(SourceClient(t), t)},
                                  !.at[t] = "downloaded"]
    /\ UNCHANGED <<workitems, files, inputs, snap, claimers, part, target, report, run,
                   fut,
                   task, xfer>>

\* _upload_file: upload through the container client, then the queue message
\* when a queue was given
H_Upload(t) ==
    /\ t \in InnerThreads
    /\ handles.at[t] = "downloaded"
    /\ handles' = [handles EXCEPT
                      !.used = @ \cup {Use(ContainerClient, t)}
                                 \cup (IF handles.queue THEN {Use(QueueClient, t)} ELSE {}),
                      !.at[t] = "uploaded"]
    /\ UNCHANGED <<workitems, files, inputs, snap, claimers, part, target, report, run,
                   fut,
                   task, xfer>>

\* The pool hands the thread its next work item or its next file.
H_NextTask(t) ==
    /\ t \in OuterThreads \cup InnerThreads
    /\ handles.at[t] \in {"queried", "checked", "uploaded"}
    /\ handles' = [handles EXCEPT !.at[t] = "idle"]
    /\ UNCHANGED <<workitems, files, inputs, snap, claimers, part, target, report, run,
                   fut,
                   task, xfer>>

\* The clients are constructed; the run is given a target queue or none.
InitHandles ==
    /\ workitems = EmptyWorkItems
    /\ files = EmptyFiles
    /\ csv = [p \in Procs |-> << >>]
    /\ budget = [p \in Procs |-> 0]
    /\ args = [p \in Procs |-> NoArgs]
    /\ env = FreeEnv
    /\ run = [p \in Procs |-> IdleRun]
    /\ fut = [p \in Procs |-> IdleFut]
    /\ task = [p \in Procs |-> IdleTasks]
    /\ xfer = [p \in Procs |-> IdleXfer]
    /\ snap = NoSnap
    /\ claimers = NoClaimers
    /\ part = NoPart
    /\ target = NoTarget
    /\ report = NoReport
    /\ \E q \in BOOLEAN : handles = [NoHandles EXCEPT !.queue = q]

NextHandles ==
    \/ \E t \in Threads : H_GetConnection(t)
    \/ \E t \in Threads : H_GetClient(t)
    \/ \E t \in Threads : H_CreateClient(t)
    \/ \E t \in Threads : H_Execute(t)
    \/ \E t \in Threads : H_CheckExists(t)
    \/ \E t \in Threads : H_Download(t)
    \/ \E t \in Threads : H_Upload(t)
    \/ \E t \in Threads : H_NextTask(t)

SpecHandles == InitHandles /\ [][NextHandles]_vars

\* ------------------------------------------ the message of a failed work item
\* Lists of failed file names, 1..MaxFailed standing for the names, in the order
\* of the resolver's rows.
RECURSIVE Ascending(_)
Ascending(S) ==
    IF S = {} THEN << >>
    ELSE LET m == CHOOSE x \in S : \A y \in S : x <= y
         IN <<m>> \o Ascending(S \ {m})

FailedLists == {Ascending(S) : S \in SUBSET (1..MaxFailed)}

\* The message with the overflow count taken as the number of all failed files
error_msg_counting_all(failed_files) ==
    [count |-> Len(failed_files),
     named |-> SubSeq(failed_files, 1, IF Len(failed_files) < 5
                                        THEN Len(failed_files) ELSE 5),
     more |-> IF Len(failed_files) > 5
              THEN [given |-> TRUE, value |-> Len(failed_files)]
              ELSE [given |-> FALSE, value |-> 0]]

\* f"{len(failed_files)} files failed: {', '.join(failed_files[:5])}", and
\* f" and {len(failed_files) - 5} more" when len(failed_files) > 5
error_msg(failed_files) ==
    [count |-> Len(failed_files),
     named |-> SubSeq(failed_files, 1, IF Len(failed_files) < 5
                                        THEN Len(failed_files) ELSE 5),
     more |-> IF Len(failed_files) > 5
              THEN [given |-> TRUE, value |-> Len(failed_files) - 5]
              ELSE [given |-> FALSE, value |-> 0]]

\* "if failed_files: error_msg = ..."
BuildMessage ==
    /\ ~report.built
    /\ report.failed_files # << >>
    /\ report' = [report EXCEPT !.built = TRUE,
                                !.error_msg = error_msg(report.failed_files)]
    /\ UNCHANGED <<workitems, files, inputs, snap, claimers, part, target, handles,
                   run, fut, task, xfer>>

\* One process is started once on W1, no signal, no kill; beside it, a list of
\* failed files of any length up to MaxFailed.
InitReport ==
    /\ workitems = EmptyWorkItems
    /\ files = EmptyFiles
    /\ csv = [p \in Procs |-> IF p = "A" THEN <<"W1">> ELSE << >>]
    /\ budget = [p \in Procs |-> IF p = "A" THEN 1 ELSE 0]
    /\ args = [p \in Procs |-> NoArgs]
    /\ env = FreeEnv
    /\ run = [p \in Procs |-> IdleRun]
    /\ fut = [p \in Procs |-> IdleFut]
    /\ task = [p \in Procs |-> IdleTasks]
    /\ xfer = [p \in Procs |-> IdleXfer]
    /\ snap = NoSnap
    /\ claimers = NoClaimers
    /\ part = NoPart
    /\ target = NoTarget
    /\ handles = NoHandles
    /\ \E ff \in FailedLists : report = [NoReport EXCEPT !.failed_files = ff]

NextReport ==
    \/ NextPinned
    \/ BuildMessage

SpecReport == InitReport /\ [][NextReport]_vars

\* ------------------------------------ partitioned runs on a shared database
\* The resolver fails or finds no file, whenever it is called.
FilelessEnvs ==
    { [pinned |-> TRUE,
       resolve |-> [w \in WorkItems |-> [ok |-> r[w], rows |-> << >>]],
       transfer |-> [w \in WorkItems |-> [f \in FileNames |-> FALSE]]] :
         r \in [WorkItems -> BOOLEAN] }

Instance(q, total) ==
    [partition |-> [given |-> TRUE, value |-> q],
     total_partitions |-> [given |-> TRUE, value |-> total]]

\* Process A is instance 0 of 2. Either it is started MaxRuns times and process B
\* is not started, or B is started once and A once less; B is instance 1 of 2 or
\* runs without partition arguments. Both have the same input list and the same
\* state database.
InitShared ==
    /\ workitems = EmptyWorkItems
    /\ files = EmptyFiles
    /\ csv = [p \in Procs |-> <<"W1", "W2">>]
    /\ \E b \in {NoArgs, Instance(1, 2)} :
          args = [p \in Procs |-> IF p = "A" THEN Instance(0, 2) ELSE b]
    /\ \E n \in 0..1 : budget = [p \in Procs |-> IF p = "A" THEN MaxRuns - n ELSE n]
    /\ \E e \in FilelessEnvs : env = e
    /\ run = [p \in Procs |-> IdleRun]
    /\ fut = [p \in Procs |-> IdleFut]
    /\ task = [p \in Procs |-> IdleTasks]
    /\ xfer = [p \in Procs |-> IdleXfer]
    /\ snap = NoSnap
    /\ claimers = NoClaimers
    /\ part = NoPart
    /\ target = NoTarget
    /\ handles = NoHandles
    /\ report = NoReport

\* The steps of runs that no signal and no kill interrupts and whose resolver
\* finds no file.
NextShared ==
    \/ \E p \in Procs, resume \in BOOLEAN : StartRun(p, resume)
    \/ \E p \in Procs : ValidateArgs(p)
    \/ \E p \in Procs : LoadCsv(p)
    \/ \E p \in Procs : GetPending(p)
    \/ \E p \in Procs, w \in WorkItems : TaskStart(p, w)
    \/ \E p \in Procs, w \in WorkItems : Collect(p, w)
    \/ \E p \in Procs : PoolCancel(p)
    \/ \E p \in Procs : PoolJoin(p)
    \/ \E p \in Procs, w \in WorkItems : P_Start(p, w)
    \/ \E p \in Procs, w \in WorkItems : P_GetStatus(p, w)
    \/ \E p \in Procs, w \in WorkItems : P_SetInProgress(p, w)
    \/ \E p \in Procs, w \in WorkItems : P_Query(p, w)
    \/ \E p \in Procs, w \in WorkItems : P_QueryFailed(p, w)
    \/ \E p \in Procs, w \in WorkItems : P_Resolved(p, w)

SpecShared == InitShared /\ [][NextShared]_vars

\* --------------------------------------- runs started with partition arguments
\* What argparse can hand to main for --partition and --total-partitions.
ArgSets ==
    [partition : {NotGiven} \cup [given : {TRUE}, value : (0 - 1)..MaxPartitions],
     total_partitions : {NotGiven} \cup [given : {TRUE}, value : 0..MaxPartitions]]

\* One process is started once, with any partition arguments, on an empty database.
InitArgs ==
    /\ workitems = EmptyWorkItems
    /\ files = EmptyFiles
    /\ csv = [p \in Procs |-> IF p = "A" THEN <<"W2">> ELSE << >>]
    /\ budget = [p \in Procs |-> IF p = "A" THEN 1 ELSE 0]
    /\ \E a \in ArgSets : args = [p \in Procs |-> IF p = "A" THEN a ELSE NoArgs]
    /\ env = FreeEnv
    /\ run = [p \in Procs |-> IdleRun]
    /\ fut = [p \in Procs |-> IdleFut]
    /\ task = [p \in Procs |-> IdleTasks]
    /\ xfer = [p \in Procs |-> IdleXfer]
    /\ snap = NoSnap
    /\ target = NoTarget
    /\ handles = NoHandles
    /\ report = NoReport
    /\ claimers = NoClaimers
    /\ part = NoPart

SpecArgs == InitArgs /\ [][NextPinned]_vars

\* ------------------------------------------ concurrent callers of claim_file
\* NClaimers threads (of one process or of several) call claim_file for one
\* file row, which is in any status when they start.
InitClaim ==
    /\ \E w \in WorkItems, f \in FileNames, st \in Statuses \cup {"absent"} :
         /\ f \in FilesOf(w)
         /\ workitems = [EmptyWorkItems EXCEPT
                            ![w] = [NoWorkItem EXCEPT !.status = "in_progress"]]
         /\ files = [EmptyFiles EXCEPT ![w][f] = st]
         /\ claimers = [i \in 1..NClaimers |->
                           [w |-> w, f |-> f, was |-> st, ret |-> "calling"]]
    /\ csv = [p \in Procs |-> << >>]
    /\ args = [p \in Procs |-> NoArgs]
    /\ budget = [p \in Procs |-> 0]
    /\ env = FreeEnv
    /\ run = [p \in Procs |-> IdleRun]
    /\ fut = [p \in Procs |-> IdleFut]
    /\ task = [p \in Procs |-> IdleTasks]
    /\ xfer = [p \in Procs |-> IdleXfer]
    /\ snap = NoSnap
    /\ target = NoTarget
    /\ handles = NoHandles
    /\ report = NoReport
    /\ part = NoPart

\* One caller's claim_file executes: the conditional UPDATE and its row count.
ClaimCall(i) ==
    /\ claimers[i].ret = "calling"
    /\ LET c == claimers[i] IN
         /\ files' = claim_update(files, c.w, c.f)
         /\ claimers' = [claimers EXCEPT ![i].ret =
                            IF claim_file(files, c.w, c.f) THEN "true" ELSE "false"]
    /\ UNCHANGED <<workitems, inputs, run, fut, task, xfer, snap, part, target, handles, report>>

NextClaim == \E i \in DOMAIN claimers : ClaimCall(i)

SpecClaim == InitClaim /\ [][NextClaim]_vars

\* ------------------------------------------- cooperating partitioned instances
\* Instances 0..total-1 are started on the same input list, each in its own
\* interpreter and with its own state database.
InitPart ==
    /\ \E total \in 2..MaxPartitions, rows \in CsvLists :
         part = [total |-> total, rows |-> rows,
                 seeded |-> [q \in 0..(total - 1) |-> [done |-> FALSE, ids |-> {}]],
                 member |-> [q \in 0..(total - 1) |->
                                [p \in 0..(total - 1) |-> {}]]]
    /\ workitems = EmptyWorkItems
    /\ files = EmptyFiles
    /\ csv = [p \in Procs |-> << >>]
    /\ args = [p \in Procs |-> NoArgs]
    /\ budget = [p \in Procs |-> 0]
    /\ env = FreeEnv
    /\ run = [p \in Procs |-> IdleRun]
    /\ fut = [p \in Procs |-> IdleFut]
    /\ task = [p \in Procs |-> IdleTasks]
    /\ xfer = [p \in Procs |-> IdleXfer]
    /\ snap = NoSnap
    /\ target = NoTarget
    /\ handles = NoHandles
    /\ report = NoReport
    /\ claimers = NoClaimers

\* Instance q, whose interpreter hashes strings by h, loads its partition; member
\* is what belongs_to_partition answers in that interpreter for every index.
PartitionedLoad(q, h) ==
    /\ ~part.seeded[q].done
    /\ LET pa == [on |-> TRUE, partition |-> q, total |-> part.total]
           ws == load_workitems_from_csv(part.rows, 1, EmptyWorkItems, pa, h)
       IN part' = [part EXCEPT
             !.seeded[q] = [done |-> TRUE,
                            ids |-> {w \in WorkItems : ws[w].status # "absent"}],
             !.member[q] = [p \in 0..(part.total - 1) |->
                              {w \in Range(part.rows) :
                                  belongs_to_partition(h, w, p, part.total)}]]
    /\ UNCHANGED <<workitems, files, inputs, run, fut, task, xfer, snap, claimers,
                   target, handles, report>>

NextPart ==
    \E q \in DOMAIN part.seeded, h \in [WorkItems -> HashValues] : PartitionedLoad(q, h)

SpecPart == InitPart /\ [][NextPart]_vars

\* ------------------------------------------------------------------ claims
Claimable(st) == st \in {"pending", "failed"}

\* C1: when NClaimers calls of claim_file race on one file whose status is
\* pending or failed, at most one has returned true at any time, and once all
\* have returned exactly one returned true and the file is in_progress.
C1_ExactlyOneClaim ==
    \A i \in DOMAIN claimers :
       LET c == claimers[i]
           won == {j \in DOMAIN claimers : claimers[j].ret = "true"}
           called == {j \in DOMAIN claimers : claimers[j].ret # "calling"}
       IN Claimable(c.was) =>
             /\ Cardinality(won) <= 1
             /\ called # {} =>
                   /\ Cardinality(won) = 1
                   /\ files[c.w][c.f] = "in_progress"
             /\ called = DOMAIN claimers =>
                   Cardinality({j \in DOMAIN claimers : claimers[j].ret = "false"})
                       = Cardinality(DOMAIN claimers) - 1

\* C1 witness: every caller has returned on a file that was failed, one with true
\* and at least one with false.
C1_Witness ==
    /\ claimers # << >>
    /\ \A i \in DOMAIN claimers : claimers[i].ret # "calling" /\ claimers[i].was = "failed"
    /\ \E i, j \in DOMAIN claimers : claimers[i].ret = "true" /\ claimers[j].ret = "false"

\* Instances of the partition run that have loaded.
Loaded == {q \in DOMAIN part.seeded : part.seeded[q].done}

\* C7: in the interpreter of any instance, every id of the input list belongs to
\* exactly one partition index 0..total-1 (the index sets are pairwise disjoint
\* and their union is the id set).
C7_PartitionsExact ==
    \A q \in Loaded :
       /\ \A id \in Range(part.rows) :
             Cardinality({p \in 0..(part.total - 1) : id \in part.member[q][p]}) = 1
       /\ UNION {part.member[q][p] : p \in 0..(part.total - 1)} = Range(part.rows)
       /\ \A p1, p2 \in 0..(part.total - 1) :
             p1 # p2 => part.member[q][p1] \cap part.member[q][p2] = {}

\* C7 witness: an instance of three evaluated the membership of two ids, which
\* fall into different partitions, one of them the last.
C7_Witness ==
    \E q \in Loaded :
       /\ part.total = 3
       /\ part.member[q][2] # {}
       /\ part.member[q][0] # {}

\* C8: once every instance 0..total-1 has filtered the same input list, every work
\* item of the list was seeded by exactly one instance.
C8_SeededByExactlyOne ==
    (part.total > 0 /\ Loaded = DOMAIN part.seeded) =>
       \A id \in Range(part.rows) :
          Cardinality({q \in Loaded : id \in part.seeded[q].ids}) = 1

\* Transfers of a processor that are submitted and not finished.
InTransfer(p, w) == {f \in FileNames : xfer[p][w][f] \in {"queued", "running"}}

\* Files a processor has submitted to its inner pool.
Dispatched(p, w) == {f \in FileNames : xfer[p][w][f] # "none"}

\* C2, in every state: a file in transfer is in_progress (never completed), no two
\* processors have the same file in transfer, what a call dispatches is what it
\* claimed, and no two files it dispatches share a destination (base name).
C2_DispatchState ==
    \A p \in Procs, w \in WorkItems :
       /\ \A f \in InTransfer(p, w) :
             /\ files[w][f] = "in_progress"
             /\ \A q \in Procs \ {p} : f \notin InTransfer(q, w)
       /\ Dispatched(p, w) \subseteq Range(task[p][w].to_process)
       /\ \A f, g \in Dispatched(p, w) : f # g => Basename(f) # Basename(g)

\* C2, in every step: a file joins a call's files_to_process only by that call's
\* own claim, which finds it pending or failed (not completed, not in_progress
\* from an earlier claim) and leaves it in_progress.
C2_ClaimStep ==
    \A p \in Procs, w \in WorkItems, f \in FileNames :
       (f \notin Range(task[p][w].to_process) /\ f \in Range(task'[p][w].to_process))
          => /\ files[w][f] \in {"pending", "failed"}
             /\ files'[w][f] = "in_progress"

\* C2: across fresh, interrupted, resumed and concurrent runs on one database, a
\* completed file is never dispatched again, a file is never dispatched while it
\* is in_progress from an earlier claim, and one call dispatches no two transfers
\* with the same destination.
C2_NoDoubleDispatch == [] C2_DispatchState /\ [][C2_ClaimStep]_vars

\* C2 witness: one process has a file in transfer while the other process, handling
\* the same work item, has passed that file without claiming it.
C2_Witness ==
    \E p, q \in Procs, w \in WorkItems, f \in FileNames :
       /\ p # q
       /\ xfer[p][w][f] = "running"
       /\ task[q][w].pc = "claims_done"
       /\ f \in Range(task[q][w].files)
       /\ f \notin Range(task[q][w].to_process)

\* C3: a work item whose status is completed has files_processed = files_total.
C3_CompletedCountsMatch ==
    \A w \in WorkItems :
       workitems[w].status = "completed" =>
          workitems[w].files_processed = workitems[w].files_total

\* C4: a work item whose status is completed has no file row that is in_progress
\* or pending.
C4_CompletedHasNoOpenFile ==
    \A w \in WorkItems :
       workitems[w].status = "completed" =>
          \A f \in FileNames : files[w][f] \notin {"in_progress", "pending"}

\* C5: in a process working alone, when a processor aborts on cancellation while
\* draining, with k of its n dispatched files recorded completed, the work item is
\* pending and stays so to the end of that run, the k files are completed, and
\* the next resume run claims (and so dispatches) exactly the files the aborted
\* call left in_progress.
C5_ResumeClaimsRemaining ==
    budget["B"] = 0 =>
       \A w \in WorkItems :
          LET t == task["A"][w] IN
          /\ t.pc = "exit_pool" =>
                /\ workitems[w].status = "pending"
                /\ \A f \in t.seen : xfer["A"][w][f] = "ok" => files[w][f] = "completed"
          /\ (run["A"].n = 1 /\ run["A"].exit \in {"0", "1"}
                /\ workitems[w].error = "shutdown") => workitems[w].status = "pending"
          /\ (run["A"].n = 2 /\ run["A"].resume
                /\ workitems[w].error = "shutdown" /\ t.pc = "claims_done")
               => Range(t.to_process) =
                     {f \in Range(t.files) : files[w][f] = "in_progress"}

\* Unique destination identities among the rows the resolver returns for w.
UniqueCount(w) == Cardinality({Basename(f) : f \in Range(env.resolve[w].rows)})

\* C6, at the end of a later run: every work item and file is as the first run
\* left it.
C6_SameTerminalState ==
    (snap.taken /\ ~snap.resume /\ run["A"].n >= 2 /\ run["A"].pc = "exited") =>
       /\ \A w \in WorkItems :
             /\ workitems[w].status = snap.workitems[w].status
             /\ workitems[w].files_total = snap.workitems[w].files_total
             /\ workitems[w].files_processed = snap.workitems[w].files_processed
       /\ files = snap.files

\* C6, in every step after the first run: for a work item the first run left
\* completed there is no resolver call, no claim, no transfer and no write.
C6_CompletedUntouched ==
    \A w \in WorkItems :
       (snap.taken /\ ~snap.resume /\ snap.workitems[w].status = "completed") =>
          /\ workitems'[w] = workitems[w]
          /\ files'[w] = files[w]
          /\ \A p \in Procs :
                /\ task'[p][w].pc \in {"none", "start", "get_status", "returned", "stopped"}
                /\ Dispatched(p, w)' = {}

\* C6: running the pipeline again with the same input, database, resolver rows and
\* transfer outcomes, and without cancellation, ends in the state the first run
\* ended in, and does nothing for the work items that were completed.
C6_RerunIdempotent == [] C6_SameTerminalState /\ [][C6_CompletedUntouched]_vars

\* C6 witness: a second run has ended after a first run that left one work item
\* completed and one failed, the failed one having been processed again.
C6_Witness ==
    /\ snap.taken /\ ~snap.resume
    /\ run["A"].n = 2 /\ run["A"].pc = "exited"
    /\ run["A"].failed = 1
    /\ \E w, v \in WorkItems :
          /\ snap.workitems[w].status = "completed"
          /\ snap.workitems[w].files_total = 2
          /\ snap.workitems[v].status = "failed"

\* No resolver call fails and no transfer fails, for the items of the input list.
AllSucceed ==
    \A w \in Range(csv["A"]) :
       /\ env.resolve[w].ok
       /\ \A f \in Range(env.resolve[w].rows) : env.transfer[w][f]

\* C9: a run of the input list on an empty database with no cancellation, no
\* resolver failure and no transfer failure ends with every work item of the list
\* completed, files_total the number of its unique resolved files, and
\* files_processed = files_total.
C9_AllCompleted ==
    (env.pinned /\ AllSucceed /\ run["A"].n = 1 /\ ~run["A"].resume
        /\ run["A"].pc = "exited") =>
       \A w \in Range(csv["A"]) :
          /\ workitems[w].status = "completed"
          /\ workitems[w].files_total = UniqueCount(w)
          /\ workitems[w].files_processed = workitems[w].files_total

\* C9 witness: such a run has ended; W1 resolved two rows with one base name and
\* one other file, W2 resolved nothing.
C9_Witness ==
    /\ env.pinned /\ AllSucceed
    /\ run["A"].n = 1 /\ ~run["A"].resume /\ run["A"].pc = "exited"
    /\ Range(csv["A"]) = {"W1", "W2"}
    /\ Len(env.resolve["W1"].rows) > UniqueCount("W1")
    /\ workitems["W1"].files_processed > 0
    /\ env.resolve["W2"].rows = << >>
    /\ workitems["W2"].status = "completed"

\* C10: every work item has files_processed <= files_total.
C10_ProcessedAtMostTotal ==
    \A w \in WorkItems :
       workitems[w].files_processed <= workitems[w].files_total

\* The step in which the processor of p, having an empty resolver result for w,
\* takes the "if not files" branch.
EmptyResultStep(p, w) ==
    /\ task[p][w].pc = "resolved"
    /\ task[p][w].raw = << >>
    /\ task'[p][w].pc = "returned"

\* C11, in every step of a process working alone: when the resolver result of a
\* work item is the empty list, the step that handles it leaves the work item
\* completed with files_total = 0 and files_processed = 0, claims no file and
\* dispatches no transfer.
C11_EmptyStep ==
    \A w \in WorkItems :
       (budget["B"] = 0 /\ EmptyResultStep("A", w)) =>
          /\ workitems'[w].status = "completed"
          /\ workitems'[w].files_total = 0
          /\ workitems'[w].files_processed = 0
          /\ files' = files
          /\ Dispatched("A", w)' = {}

\* C11: a work item whose resolver result is empty ends completed with
\* files_total = 0 and files_processed = 0, on a fresh run and on a resume of an
\* item that had files recorded earlier.
C11_EmptyEndsAtZero == [][C11_EmptyStep]_vars

\* Destination identities (work item name plus base name) among rows of one
\* work item.
Identities(rows) == {Basename(f) : f \in Range(rows)}

\* C12, in every step that writes a work item's file count: the files kept are the
\* first occurrences of the destination identities of the resolved rows, one per
\* identity, none missing, and files_total is the number of distinct identities.
C12_CountStep ==
    \A p \in Procs, w \in WorkItems :
       (task[p][w].pc = "resolved" /\ task'[p][w].pc = "add_file") =>
          LET raw == task[p][w].raw
              kept == task'[p][w].files
          IN /\ workitems'[w].files_total = Cardinality(Identities(raw))
             /\ Len(kept) = Cardinality(Identities(raw))
             /\ Identities(kept) = Identities(raw)
             /\ \A j \in 1..Len(kept) :
                   \E i \in 1..Len(raw) :
                      /\ raw[i] = kept[j]
                      /\ \A k \in 1..(i - 1) : Basename(raw[k]) # Basename(kept[j])

\* C12: of resolved rows with the same destination identity only the first is
\* kept, files_total is the number of distinct destination identities, and rows
\* with different identities are never collapsed.
C12_DedupeByIdentity == [][C12_CountStep]_vars

\* C12 witness: the count 1 was written for a work item whose two resolved rows
\* have one base name, and the first of them is the file about to be tracked.
C12_Witness ==
    \E w \in WorkItems :
       /\ env.pinned
       /\ Len(env.resolve[w].rows) = 2
       /\ env.resolve[w].rows[1] # env.resolve[w].rows[2]
       /\ task["A"][w].pc = "add_file"
       /\ task["A"][w].files = <<env.resolve[w].rows[1]>>
       /\ workitems[w].files_total = 1

\* C13: when a run of a process working alone has ended with an exit status, the
\* status is 0 only if every work item of its worklist is completed, and it is
\* 1 whenever a processor of that run returned on a work item it left failed;
\* also when the run was ended by SIGINT.
C13_ExitStatusTellsOutcome ==
    (budget["B"] = 0 /\ run["A"].pc = "exited") =>
       /\ run["A"].exit = "0" =>
             \A w \in Range(run["A"].worklist) : workitems[w].status = "completed"
       /\ run["A"].exit \in {"0", "1"} =>
             \A w \in Range(run["A"].worklist) :
                (fut["A"][w] = "done_false" /\ workitems[w].status = "failed")
                   => run["A"].exit = "1"

\* Rows of the workitems table that are not completed.
Retryable == {w \in WorkItems : workitems[w].status \in {"pending", "failed", "in_progress"}}

\* C14, in every state: a run started with --resume never is at the loading of
\* the input list.
C14_ResumeSkipsLoad == \A p \in Procs : run[p].resume => run[p].pc # "load"

\* C14, in every step: a row is inserted only by the loading step of a run that
\* is not a resume run, and the worklist a run builds is exactly the rows that
\* are pending, failed or in_progress at that moment (so never a completed row);
\* a run that finds no such row ends without a worklist.
C14_WorklistStep ==
    \A p \in Procs :
       /\ (run[p].resume /\ run'[p] # run[p]) =>
             \A w \in WorkItems :
                workitems[w].status = "absent" => workitems'[w].status = "absent"
       /\ (run[p].pc = "get_pending" /\ run'[p].pc # "get_pending"
              /\ run'[p].exit # "killed") =>
             /\ Range(run'[p].worklist) = Retryable
             /\ Len(run'[p].worklist) = Cardinality(Retryable)
             /\ \A w \in WorkItems : (fut'[p][w] # "none") = (w \in Retryable)

C15_ResumeClaimsOpenFiles ==
    budget["B"] = 0 =>
       \A w \in WorkItems :
          LET t == task["A"][w] IN
          (run["A"].n = 2 /\ run["A"].resume /\ workitems[w].error # "shutdown"
              /\ t.pc = "claims_done")
             => \A f \in Range(t.files) :
                   files[w][f] # "completed" => f \in Range(t.to_process)

\* Files of a work item recorded completed.
CompletedFiles(w) == {f \in FileNames : files[w][f] = "completed"}

\* C16: in every state of the database, every file that is completed has been
\* counted in its work item's files_processed: no reader finds a file completed
\* and the increment for it missing.
C16_CompletedIsCounted ==
    \A w \in WorkItems :
       Cardinality(CompletedFiles(w)) <= workitems[w].files_processed

\* The changes of a file row's status the claim lifecycle allows; a row is
\* inserted as pending.
FileTransitions ==
    { <<"absent", "pending">>,
      <<"pending", "in_progress">>, <<"failed", "in_progress">>,
      <<"in_progress", "completed">>, <<"in_progress", "failed">> }

\* C17, in every step: a file row that changes goes pending -> in_progress,
\* failed -> in_progress, in_progress -> completed or in_progress -> failed (or is
\* inserted as pending); a file recorded completed or failed was in_progress in
\* the claim of the processor that records it.
C17_FileStep ==
    \A w \in WorkItems, f \in FileNames :
       /\ files'[w][f] # files[w][f] => <<files[w][f], files'[w][f]>> \in FileTransitions
       /\ \A p \in Procs :
             (f \notin task[p][w].seen /\ f \in task'[p][w].seen) =>
                /\ files[w][f] = "in_progress"
                /\ f \in Range(task[p][w].to_process)
                /\ files'[w][f] \in {"completed", "failed"}

InvalidArgs(a) ==
    \/ a.partition.given # a.total_partitions.given
    \/ /\ a.partition.given /\ a.total_partitions.given
       /\ \/ a.partition.value < 0
          \/ a.partition.value >= a.total_partitions.value
          \/ a.total_partitions.value < 2

\* C18: a run started with invalid partition arguments never gets past the
\* validation: it ends with status 1, the state database has no row, and no
\* processor and no transfer was ever started.
C18_InvalidArgsFailFast ==
    \A p \in Procs :
       InvalidArgs(args[p]) =>
          /\ run[p].pc \in {"idle", "validate", "exited"}
          /\ run[p].pc = "exited" => run[p].exit = "1"
          /\ workitems = EmptyWorkItems
          /\ files = EmptyFiles
          /\ fut[p] = IdleFut
          /\ task[p] = IdleTasks
          /\ xfer[p] = IdleXfer

\* C18 witness: a run given --partition 0 --total-partitions 1 has ended.
C18_Witness ==
    /\ args["A"].partition = [given |-> TRUE, value |-> 0]
    /\ args["A"].total_partitions = [given |-> TRUE, value |-> 1]
    /\ run["A"].pc = "exited"
    /\ run["A"].exit = "1"

\* Work items of p's worklist whose future ended as in S.
Ended(p, S) == {w \in Range(run[p].worklist) : fut[p][w] \in S}

\* C19: when a run without cancellation has ended, every work item of the worklist
\* was processed, whatever failed for the others: it is completed if its processor
\* returned True and failed if it returned False (only an item whose own failure
\* handler raised keeps in_progress); the failed count is the number of items
\* whose processor returned False or raised, and the exit status is 1 exactly
\* when that count is not 0.
C19_FailuresStayLocal ==
    (run["A"].pc = "exited" /\ run["A"].worklist # << >>) =>
       /\ Range(run["A"].worklist) = Ended("A", {"done_true", "done_false", "done_raised"})
       /\ \A w \in Ended("A", {"done_true"}) : workitems[w].status = "completed"
       /\ \A w \in Ended("A", {"done_false"}) : workitems[w].status = "failed"
       /\ run["A"].completed = Cardinality(Ended("A", {"done_true"}))
       /\ run["A"].failed = Cardinality(Ended("A", {"done_false", "done_raised"}))
       /\ run["A"].skipped = 0
       /\ (run["A"].exit = "1") = (run["A"].failed > 0)
       /\ (run["A"].exit = "0") = (run["A"].failed = 0)

\* C19 witness: a run has ended in which one work item failed on an exception in
\* its processor and the other was completed with a file transferred.
C19_Witness ==
    \E w, v \in WorkItems :
       /\ run["A"].pc = "exited"
       /\ run["A"].exit = "1"
       /\ workitems[w].status = "failed" /\ workitems[w].error = "unexpected"
       /\ fut["A"][v] = "done_true"
       /\ workitems[v].status = "completed" /\ workitems[v].files_processed > 0

\* C20, in every state: when the drain loop of a processor is over, every file it
\* claimed has had its transfer run and is completed if its own transfer
\* succeeded and failed if it did not, and failed_files are the latter.
C20_EachFileItsOwnOutcome ==
    \A p \in Procs, w \in WorkItems :
       LET t == task[p][w] IN
       t.pc = "finalize" =>
          /\ \A f \in Range(t.to_process) :
                /\ xfer[p][w][f] \in {"ok", "fail"}
                /\ xfer[p][w][f] = "ok" => files[w][f] = "completed"
                /\ xfer[p][w][f] = "fail" => files[w][f] = "failed"
          /\ Range(t.failed_files) = {f \in Range(t.to_process) : xfer[p][w][f] = "fail"}

\* C20, in every step: claim_file on a file that is failed returns true: the file
\* becomes in_progress and joins files_to_process.
C20_FailedIsClaimable ==
    \A p \in Procs, w \in WorkItems :
       LET t == task[p][w] IN
       (t.pc = "claim_file" /\ task'[p][w] # t /\ files[w][t.files[t.idx]] = "failed") =>
          /\ files'[w][t.files[t.idx]] = "in_progress"
          /\ task'[p][w].to_process = Append(t.to_process, t.files[t.idx])

\* C20: without cancellation, a failed transfer marks only its own file failed
\* and stops no other file of the work item; a file left failed is claimed again
\* by the next run.
C20_TransferFailuresStayLocal ==
    [] C20_EachFileItsOwnOutcome /\ [][C20_FailedIsClaimable]_vars

\* C20 witness: the first run left file f failed and its sibling g completed; the
\* second run has skipped g, claimed f again and run its transfer, which failed
\* again.
C20_Witness ==
    \E w \in WorkItems, f, g \in FileNames :
       LET t == task["A"][w] IN
       /\ run["A"].n = 2
       /\ snap.taken /\ snap.files[w][f] = "failed"
       /\ t.pc = "finalize"
       /\ Range(t.to_process) = {f}
       /\ g \in Range(t.files)
       /\ xfer["A"][w][f] = "fail" /\ files[w][f] = "failed"
       /\ files[w][g] = "completed"

\* C21: a failing call of the state database never ends the process with an
\* error, wherever it happens (seeding, reading the worklist, inside a
\* processor): no run ends on an uncaught exception, and a work item whose
\* processor failed or raised is left pending, failed or in_progress, in the
\* next run's worklist.
C21_StorageFailureNeverFatal ==
    \A p \in Procs :
       /\ run[p].exit # "error"
       /\ \A w \in Ended(p, {"done_false", "done_raised"}) : w \in Retryable

\* C22, in every step: a work item row that exists is not changed by the seeding
\* of a run (add_workitem for every row of the input list), and a file row that
\* exists is not changed by add_file.
C22_InsertStep ==
    \A p \in Procs :
       /\ (run[p].pc = "load" /\ run'[p].pc = "get_pending") =>
             /\ \A w \in WorkItems :
                   workitems[w].status # "absent" => workitems'[w] = workitems[w]
             /\ \A w \in Range(csv[p]) : workitems'[w].status # "absent"
       /\ \A w \in WorkItems :
             (task[p][w].pc = "add_file" /\ task'[p][w].pc = "get_file_status") =>
                LET f == task[p][w].files[task[p][w].idx] IN
                /\ \A g \in FileNames : files[w][g] # "absent" => files'[w][g] = files[w][g]
                /\ files'[w][f] # "absent"

\* C22: add_workitem and add_file insert only if the row is absent: seeding a
\* fresh run over an existing database never resets a completed, failed or
\* in_progress work item to pending, and adding a resolved file again never
\* resets a completed file.
C22_InsertIfAbsent == [][C22_InsertStep]_vars

\* C22 witness: a second, fresh run has seeded the input list again over a work
\* item the first run left failed with one of its files completed, and its
\* processor has added that file again.
C22_Witness ==
    \E f \in FileNames :
       /\ budget["B"] = 0
       /\ run["A"].n = 2 /\ ~run["A"].resume
       /\ workitems["W1"].error = "files"
       /\ workitems["W1"].files_processed = 1
       /\ task["A"]["W1"].pc = "get_file_status"
       /\ task["A"]["W1"].files[task["A"]["W1"].idx] = f
       /\ files["W1"][f] = "completed"

\* C23: a file whose destination was in the target store when its transfer
\* started is never downloaded and never uploaded, its transfer does not fail,
\* and once its outcome is recorded the file is completed.
C23_ExistingSkipsDownload ==
    \A w \in WorkItems, f \in FileNames :
       <<w, f>> \in target.existed =>
          /\ <<w, f>> \notin target.downloads
          /\ <<w, f>> \notin target.uploads
          /\ xfer["A"][w][f] \notin {"downloading", "uploading", "fail"}
          /\ f \in task["A"][w].seen => files[w][f] = "completed"

\* C24: no connection and no client is used by two threads.
C24_NoSharedHandle ==
    \A u1, u2 \in handles.used : u1.handle = u2.handle => u1.thread = u2.thread

\* C25: once the second signal has been handled, the process writes nothing
\* more to the state database (one process on the database).
C25_ForcedStep ==
    (budget["B"] = 0 /\ run["A"].pc = "force_quit") =>
        (workitems' = workitems /\ files' = files)

C25_NoWriteAfterSecondSignal == [][C25_ForcedStep]_vars

\* C26: when a processor that saw the cancellation while draining returns, every
\* transfer of its item that had started has its outcome written: the file is
\* completed or failed (one process on the database).
C26_AbortStep ==
    \A w \in WorkItems :
       (/\ budget["B"] = 0
        /\ task["A"][w].pc = "exit_pool"
        /\ task'["A"][w].pc = "stopped") =>
           \A f \in FileNames :
              xfer["A"][w][f] \in {"running", "ok", "fail"} =>
                 files'[w][f] \in {"completed", "failed"}

C26_StartedTransfersRecorded == [][C26_AbortStep]_vars

\* A file that some running processor has claimed and may still record.
Owned(w, f) == \E p \in Procs : f \in Range(task[p][w].to_process)

\* A claimed file that no running processor will record.
Stranded(w, f) == files[w][f] = "in_progress" /\ ~Owned(w, f)

\* C27: a file left in_progress by a processor that is gone stays in_progress,
\* and no processor of any run claims or dispatches it.
C27_StrandedStep ==
    \A w \in WorkItems, f \in FileNames :
       Stranded(w, f) =>
          /\ files'[w][f] = "in_progress"
          /\ \A p \in Procs :
                /\ f \notin Range(task'[p][w].to_process)
                /\ xfer'[p][w][f] = "none"

C27_StrandedStaysInProgress == [][C27_StrandedStep]_vars

\* The first run's processor wrote the shutdown note and left a claimed file
\* unrecorded; the second run's processor has gone through its claim loop, the
\* file is among the resolved ones, it was not claimed and is still in_progress.
C27_Witness ==
    /\ budget["B"] = 0
    /\ run["A"].n = 2
    /\ \E w \in WorkItems, f \in FileNames :
          /\ workitems[w].error = "shutdown"
          /\ task["A"][w].pc = "claims_done"
          /\ f \in Range(task["A"][w].files)
          /\ Stranded(w, f)

\* The step in which the processor of w in p stops at a check of shutdown_event.
StopStep(p, w) == task[p][w].pc # "stopped" /\ task'[p][w].pc = "stopped"

\* C28, the row: a processor that stops on cancellation leaves the row of its
\* work item as it was or pending.
C28_StopStep ==
    \A p \in Procs, w \in WorkItems :
       StopStep(p, w) =>
          \/ workitems'[w] = workitems[w]
          \/ workitems'[w].status = "pending"

\* C28: a work item whose processor stopped on cancellation is counted neither
\* completed nor failed by main, to the end of the run, and the processor's stop
\* does not make its row completed or failed.
C28_StoppedIsNotCounted ==
    /\ [](\A p \in Procs, w \in WorkItems :
            task[p][w].pc = "stopped" => w \notin run[p].collected)
    /\ [][C28_StopStep]_vars

\* A run has ended in which one work item was counted and the processor of
\* another stopped on cancellation.
C28_Witness ==
    \E p \in Procs, w, v \in WorkItems :
       /\ run[p].pc = "exited"
       /\ task[p][w].pc = "stopped"
       /\ v \in run[p].collected

\* C29, in every step in which a processor that saw no cancellation and had
\* dispatched files writes its work item completed or failed and returns: the
\* outcome of every file it dispatched has been written by it before.
C29_TerminalStep ==
    \A p \in Procs, w \in WorkItems :
       (/\ ~run[p].shutdown
        /\ Dispatched(p, w) # {}
        /\ task'[p][w].pc = "returned"
        /\ fut'[p][w] \in {"done_true", "done_false"}) =>
           /\ workitems'[w].status \in {"completed", "failed"}
           /\ \A f \in Dispatched(p, w) : f \in task[p][w].seen

C29_FilesBeforeWorkItem == [][C29_TerminalStep]_vars

\* C30, in every step of a processor up to its resolver call, and in the step
\* that handles the resolver's failure: no file row is created or changed and the
\* counters of the work item stay; the handling step leaves the work item failed
\* with the resolver's error, returns False, and the row is one that
\* get_pending_workitems selects.
C30_QueryStep ==
    \A p \in Procs, w \in WorkItems :
       LET handling == task[p][w].pc = "query_failed" /\ task'[p][w].pc = "returned"
           before == /\ task'[p][w] # task[p][w]
                     /\ task'[p][w].pc \in {"get_status", "set_in_progress",
                                            "query", "query_failed"}
       IN /\ (handling \/ before) =>
                /\ files' = files
                /\ workitems'[w].files_total = workitems[w].files_total
                /\ workitems'[w].files_processed = workitems[w].files_processed
          /\ handling =>
                /\ workitems'[w].status = "failed"
                /\ workitems'[w].error = "query"
                /\ fut'[p][w] = "done_false"
                /\ w \in Range(get_pending_workitems(workitems'))

C30_ResolverFailureFailsItem == [][C30_QueryStep]_vars

\* The resolver failed for W1 in the first run; the second run has W1, failed
\* with the resolver's error, in its worklist and has not started on it.
C30_Witness ==
    /\ budget["B"] = 0
    /\ run["A"].n = 2
    /\ run["A"].pc = "collect"
    /\ fut["A"]["W1"] = "queued"
    /\ workitems["W1"].status = "failed"
    /\ workitems["W1"].error = "query"
    /\ \A f \in FileNames : files["W1"][f] = "absent"

\* C31, in every step of a processor that has started without cancellation on a
\* work item that is completed: it returns True, and neither that step nor its
\* start writes the database, queries the resolver, claims or dispatches.
C31_CompletedStep ==
    \A p \in Procs, w \in WorkItems :
       /\ (task[p][w].pc = "start" /\ task'[p][w].pc = "get_status") =>
             workitems' = workitems /\ files' = files
       /\ (/\ task[p][w].pc = "get_status"
           /\ workitems[w].status = "completed"
           /\ task'[p][w] # task[p][w]
           /\ task'[p][w].pc # "none") =>
             /\ task'[p][w].pc = "returned"
             /\ fut'[p][w] = "done_true"
             /\ workitems' = workitems
             /\ files' = files
             /\ task'[p][w].to_process = << >>
             /\ Dispatched(p, w)' = {}

C31_CompletedIsSkipped == [][C31_CompletedStep]_vars

\* Two processes took W2 into their worklists; one has completed it, the
\* processor of the other has started, no signal set, and is at its check.
C31_Witness ==
    \E p \in Procs :
       /\ ~run[p].shutdown
       /\ task[p]["W2"].pc = "get_status"
       /\ workitems["W2"].status = "completed"

\* Processors that have committed a file of w as completed and not yet the
\* increment of files_processed.
Incrementing(w) == {p \in Procs : task[p][w].pc = "incr"}

\* C32, the step that ends a claim loop in which nothing was claimed: the work
\* item is written completed, the call returns True, nothing is dispatched and
\* files_processed stays.
C32_NothingClaimedStep ==
    \A p \in Procs, w \in WorkItems :
       (/\ task[p][w].pc = "claims_done"
        /\ task[p][w].to_process = << >>
        /\ task'[p][w] # task[p][w]
        /\ task'[p][w].pc # "none") =>
          /\ workitems'[w].status = "completed"
          /\ workitems'[w].files_processed = workitems[w].files_processed
          /\ fut'[p][w] = "done_true"
          /\ files' = files
          /\ Dispatched(p, w)' = {}

\* C32, two processes racing on one database, none of them killed: every file
\* recorded completed is counted once in files_processed, or its increment is
\* the next commit of the processor that recorded it.
C32_CountedOnce ==
    (budget["B"] = 1 /\ \A p \in Procs : run[p].exit # "killed") =>
       \A w \in WorkItems :
          workitems[w].files_processed + Cardinality(Incrementing(w))
             = Cardinality(CompletedFiles(w))

C32_NothingClaimedCompletes == [] C32_CountedOnce /\ [][C32_NothingClaimedStep]_vars

\* Two processors race on W2: one holds a claimed file of it, the other has gone
\* through its claim loop over that file and claimed nothing.
C32_Witness ==
    \E p, q \in Procs, f \in FileNames :
       /\ p # q
       /\ task[p]["W2"].pc = "claims_done"
       /\ task[p]["W2"].to_process = << >>
       /\ f \in Range(task[p]["W2"].files)
       /\ f \in Range(task[q]["W2"].to_process)

\* C33, in every step a processor takes at one of its three checks while the
\* signal is set. At the start: it stops, nothing is written or dispatched.
\* Before the dispatch (the resolver returned rows): it stops, the work item is
\* pending, files_total, files_processed and every file row are as before,
\* nothing is dispatched. While draining: the work item is pending with the
\* shutdown note, no file row changes and no transfer is left queued.
C33_CheckpointStep ==
    \A p \in Procs, w \in WorkItems :
       LET t == task[p][w]
           acts == run[p].shutdown /\ task'[p][w] # t /\ task'[p][w].pc # "none"
       IN /\ (t.pc = "start" /\ acts) =>
                /\ task'[p][w].pc = "stopped"
                /\ fut'[p][w] = "done_false"
                /\ workitems' = workitems
                /\ files' = files
                /\ Dispatched(p, w)' = {}
          /\ (t.pc = "resolved" /\ t.raw # << >> /\ acts) =>
                /\ task'[p][w].pc = "stopped"
                /\ fut'[p][w] = "done_false"
                /\ workitems'[w].status = "pending"
                /\ workitems'[w].files_total = workitems[w].files_total
                /\ workitems'[w].files_processed = workitems[w].files_processed
                /\ files' = files
                /\ Dispatched(p, w)' = {}
          /\ (t.pc = "drain" /\ acts) =>
                /\ task'[p][w].pc = "exit_pool"
                /\ workitems'[w].status = "pending"
                /\ workitems'[w].error = "shutdown"
                /\ files' = files
                /\ \A f \in FileNames : xfer'[p][w][f] # "queued"

C33_CheckpointsHonoured == [][C33_CheckpointStep]_vars

\* In the first run of a process working alone a processor has stopped while
\* draining: its work item is pending with the shutdown note.
C33_Witness ==
    /\ budget["B"] = 0
    /\ run["A"].n = 1
    /\ \E w \in WorkItems :
          /\ task["A"][w].pc = "stopped"
          /\ workitems[w].status = "pending"
          /\ workitems[w].error = "shutdown"

\* C34, the step that writes the status after the full drain: failed when a
\* dispatched file's transfer failed, completed otherwise.
C34_FinalizeStep ==
    \A p \in Procs, w \in WorkItems :
       (task[p][w].pc = "finalize" /\ task'[p][w].pc = "returned") =>
          LET failed == {f \in Dispatched(p, w) : xfer[p][w][f] = "fail"} IN
          /\ workitems'[w].status = IF failed # {} THEN "failed" ELSE "completed"
          /\ workitems'[w].error = IF failed # {} THEN "files" ELSE "none"
          /\ fut'[p][w] = IF failed # {} THEN "done_false" ELSE "done_true"

\* C34, the message for n failed files: it gives n, names the first min(n, 5)
\* of them, and gives n - 5 as the number of the others exactly when n > 5.
C34_Message ==
    report.built =>
       LET n == Len(report.failed_files)
           m == report.error_msg
       IN /\ m.count = n
          /\ Len(m.named) = IF n < 5 THEN n ELSE 5
          /\ \A i \in 1..Len(m.named) : m.named[i] = report.failed_files[i]
          /\ m.more.given <=> n > 5
          /\ m.more.given => m.more.value = n - 5

C34_FailedIffAFileFailed == [] C34_Message /\ [][C34_FinalizeStep]_vars

\* The work item was written failed after a drain in which one of two
\* dispatched files failed, and a message for MaxFailed files has been built.
C34_Witness ==
    /\ report.built
    /\ Len(report.failed_files) = MaxFailed
    /\ workitems["W1"].status = "failed"
    /\ workitems["W1"].error = "files"
    /\ workitems["W1"].files_total = 2
    /\ workitems["W1"].files_processed = 1

\* How far a processor has come in process_workitem.
PcRank(pc) ==
    CASE pc = "none" -> 0
      [] pc = "start" -> 1
      [] pc = "get_status" -> 2
      [] pc = "set_in_progress" -> 3
      [] pc = "query" -> 4
      [] pc \in {"query_failed", "resolved"} -> 5
      [] pc \in {"add_file", "get_file_status", "claim_file"} -> 6
      [] pc = "claims_done" -> 7
      [] pc \in {"drain", "incr"} -> 8
      [] pc \in {"finalize", "exit_pool"} -> 9
      [] pc \in {"returned", "stopped"} -> 10

\* C35, in every state: a worklist and a processor's list of files name nothing
\* twice.
C35_NoDuplicates ==
    \A p \in Procs :
       /\ Len(run[p].worklist) = Cardinality(Range(run[p].worklist))
       /\ \A w \in WorkItems :
             Len(task[p][w].files) = Cardinality(Range(task[p][w].files))

\* C35, in every step within one run of a process: a work item is submitted
\* only when the worklist is built and is taken by a processor only from the
\* queue; a processor never goes back in process_workitem; every claim attempt,
\* successful or not, moves the claim loop to the next file; a transfer is
\* submitted only when the claim loop has ended and is started only from the
\* queue, and a finished transfer is not started again.
C35_OnceStep ==
    \A p \in Procs, w \in WorkItems :
       LET t == task[p][w]
           u == task'[p][w]
       IN /\ (fut'[p][w] = "queued" /\ fut[p][w] # "queued") =>
                run[p].pc = "get_pending"
          /\ (fut'[p][w] = "running" /\ fut[p][w] # "running") =>
                fut[p][w] = "queued" /\ t.pc = "none"
          /\ u.pc # "none" => PcRank(u.pc) >= PcRank(t.pc)
          /\ (PcRank(t.pc) = 6 /\ PcRank(u.pc) = 6) => u.idx >= t.idx
          /\ (t.pc = "claim_file" /\ u # t /\ u.pc # "none") =>
                /\ PcRank(u.pc) \in {6, 7}
                /\ PcRank(u.pc) = 6 => u.idx = t.idx + 1
          /\ \A f \in FileNames :
                /\ (xfer'[p][w][f] = "queued" /\ xfer[p][w][f] # "queued") =>
                      t.pc = "claims_done" /\ xfer[p][w][f] = "none"
                /\ (xfer'[p][w][f] = "running" /\ xfer[p][w][f] # "running") =>
                      xfer[p][w][f] = "queued"
                /\ xfer[p][w][f] \in {"ok", "fail", "cancelled"} =>
                      xfer'[p][w][f] \in {xfer[p][w][f], "none"}

C35_NoRetryWithinRun == [] C35_NoDuplicates /\ [][C35_OnceStep]_vars

\* A run of a process working alone has ended with status 1: of the two files of
\* W1 one was claimed, transferred once and recorded failed, the other was
\* found in_progress, and the work item is failed.
C35_Witness ==
    /\ budget["B"] = 0
    /\ run["A"].pc = "exited"
    /\ run["A"].exit = "1"
    /\ workitems["W1"].status = "failed"
    /\ workitems["W1"].error = "files"
    /\ \E f, g \in FileNames :
          /\ files["W1"][f] = "failed"
          /\ files["W1"][g] = "in_progress"

\* C36: in a run that is not a resume run and was started with partition
\* arguments, every work item submitted to the pool is one that the run's own
\* partition check let pass.
C36_WorklistInPartition ==
    \A p \in Procs :
       (args[p].partition.given /\ ~run[p].resume /\ run[p].pc # "idle") =>
          \A w \in WorkItems : fut[p][w] # "none" => w \in run[p].in_partition

\* C37, in every state in which no processor is between the two commits of
\* update_file_status: files_processed of a work item is the number of its
\* completed files.
C37_CountMatches ==
    \A w \in WorkItems :
       Incrementing(w) = {} =>
          workitems[w].files_processed = Cardinality(CompletedFiles(w))

\* C37, in every step: files_processed does not go down.
C37_CountStep ==
    \A w \in WorkItems :
       workitems'[w].files_processed >= workitems[w].files_processed

C37_ProcessedCountsCompleted == [] C37_CountMatches /\ [][C37_CountStep]_vars

\* C38, in every state: when a run that got the signal has ended, no work item
\* is in_progress.
C38_NoneInProgress ==
    (run["A"].pc = "exited" /\ run["A"].shutdown) =>
       \A w \in WorkItems : workitems[w].status # "in_progress"

\* C38: a run that got the signal ends, and then no work item is in_progress.
C38_GracefulShutdownEnds ==
    /\ [] C38_NoneInProgress
    /\ (run["A"].shutdown ~> run["A"].pc = "exited")

\* A run that got the signal has ended; the processor of W1 had started and
\* its work item is pending again with the shutdown note, the processor of W2
\* stopped.
C38_Witness ==
    /\ run["A"].pc = "exited"
    /\ run["A"].shutdown
    /\ workitems["W1"].status = "pending"
    /\ workitems["W1"].error = "shutdown"
    /\ task["A"]["W2"].pc = "stopped"

\* C39, in every state: when a run that got no signal has ended, every work
\* item of its worklist is completed or failed, and no file is left in_progress
\* (the run is the only one that has claimed files).
C39_AllSettled ==
    (run["A"].pc = "exited" /\ ~run["A"].shutdown) =>
       /\ \A w \in Range(run["A"].worklist) :
             workitems[w].status \in {"completed", "failed"}
       /\ \A w \in WorkItems, f \in FileNames :
             files[w][f] # "in_progress"

\* C39: a run that gets no signal ends, and then every work item of its
\* worklist and every file it claimed is completed or failed.
C39_RunSettlesEverything ==
    /\ [] C39_AllSettled
    /\ (run["A"].pc # "idle" ~> run["A"].pc = "exited")

====
